---- MODULE Spec2Model ----
(***************************************************************************)
(* Model of the ADIYOGI tool execution engine                              *)
(* (src/services/execution/ToolExecutor.js).                               *)
(*                                                                         *)
(* One ToolExecutor instance serves several overlapping executeTools       *)
(* calls.  Node.js runs one callback at a time, so every action below is   *)
(* one callback (or one chain of promise continuations that no other       *)
(* callback can interleave with); the actions interleave freely.           *)
(* Strings that the code inspects character by character are sequences of  *)
(* one-character strings.                                                  *)
(***************************************************************************)
EXTENDS Integers, Sequences, FiniteSets, TLC

(***************************************************************************)
(* Bounds of the model.                                                    *)
(***************************************************************************)
\* number of overlapping executeTools calls
NumCallers == 2

\* longest tool list of one call
MaxTools == 3

\* tool executions over all calls together
MaxExecs == 3

\* config.execution.maxConcurrent as configured in the model
MaxConcurrent == 2
MaxLimit == 4
MaxTicks == 3
TickMs == 180000
MaxSweeps == 2

Callers == 1..NumCallers

(***************************************************************************)
(* Strings.                                                                *)
(***************************************************************************)
Lower == {"a","b","c","d","e","f","g","h","i","j","k","l","m",
          "n","o","p","q","r","s","t","u","v","w","x","y","z"}

Upper == {"A","B","C","D","E","F","G","H","I","J","K","L","M",
          "N","O","P","Q","R","S","T","U","V","W","X","Y","Z"}

Digit == {"0","1","2","3","4","5","6","7","8","9"}

Alnum == Lower \cup Upper \cup Digit

\* characters String.prototype.trim removes
WhiteSpace == {" ", "\t", "\n", "\r"}

\* RegExp(sub).test(s) for a literal sub, String.prototype.includes
Includes(s, sub) ==
    \E i \in 1..(Len(s) - Len(sub) + 1) : SubSeq(s, i, i + Len(sub) - 1) = sub

StartsWith(s, pre) ==
    Len(s) >= Len(pre) /\ SubSeq(s, 1, Len(pre)) = pre

EndsWith(s, suf) ==
    Len(s) >= Len(suf) /\ SubSeq(s, Len(s) - Len(suf) + 1, Len(s)) = suf

\* String.prototype.split(sep) for a one-character separator
RECURSIVE SplitFrom(_, _, _)
SplitFrom(s, sep, cur) ==
    IF s = <<>> THEN <<cur>>
    ELSE IF Head(s) = sep THEN <<cur>> \o SplitFrom(Tail(s), sep, <<>>)
    ELSE SplitFrom(Tail(s), sep, Append(cur, Head(s)))

Split(s, sep) == SplitFrom(s, sep, <<>>)

RECURSIVE TrimStart(_)
TrimStart(s) ==
    IF s # <<>> /\ Head(s) \in WhiteSpace THEN TrimStart(Tail(s)) ELSE s

RECURSIVE TrimEnd(_)
TrimEnd(s) ==
    IF s # <<>> /\ s[Len(s)] \in WhiteSpace
    THEN TrimEnd(SubSeq(s, 1, Len(s) - 1)) ELSE s

Trim(s) == TrimEnd(TrimStart(s))

\* UTF-16 code units of the characters the model uses
Code(ch) ==
    CASE ch = "\t" -> 9
      [] ch = "\n" -> 10
      [] ch = " " -> 32
      [] ch = "\"" -> 34
      [] ch = "#" -> 35
      [] ch = "%" -> 37
      [] ch = "+" -> 43
      [] ch = "," -> 44
      [] ch = "-" -> 45
      [] ch = "." -> 46
      [] ch = "/" -> 47
      [] ch \in Digit -> 48 + (CHOOSE n \in 0..9 : ToString(n) = ch)
      [] ch = ":" -> 58
      [] ch = ";" -> 59
      [] ch = "=" -> 61
      [] ch = "@" -> 64
      [] ch \in Upper -> 65 + (CHOOSE n \in 0..25 :
             <<"A","B","C","D","E","F","G","H","I","J","K","L","M",
               "N","O","P","Q","R","S","T","U","V","W","X","Y","Z">>[n + 1] = ch)
      [] ch = "[" -> 91
      [] ch = "]" -> 93
      [] ch = "_" -> 95
      [] ch \in Lower -> 97 + (CHOOSE n \in 0..25 :
             <<"a","b","c","d","e","f","g","h","i","j","k","l","m",
               "n","o","p","q","r","s","t","u","v","w","x","y","z">>[n + 1] = ch)
      [] OTHER -> 127

\* the default comparison of Array.prototype.sort: a before b
RECURSIVE StrLess(_, _)
StrLess(a, b) ==
    IF b = <<>> THEN FALSE
    ELSE IF a = <<>> THEN TRUE
    ELSE IF Code(Head(a)) # Code(Head(b)) THEN Code(Head(a)) < Code(Head(b))
    ELSE StrLess(Tail(a), Tail(b))

\* insertion of x into a sorted sequence, after its equals (stable)
RECURSIVE InsertSorted(_, _)
InsertSorted(x, xs) ==
    IF xs = <<>> THEN <<x>>
    ELSE IF StrLess(x, Head(xs)) THEN <<x>> \o xs
    ELSE <<Head(xs)>> \o InsertSorted(x, Tail(xs))

\* Array.prototype.sort() without a comparator, on strings
RECURSIVE DefaultSort(_)
DefaultSort(xs) ==
    IF xs = <<>> THEN <<>>
    ELSE InsertSorted(xs[Len(xs)], DefaultSort(SubSeq(xs, 1, Len(xs) - 1)))

\* filter((x, index, arr) => arr.indexOf(x) === index)
RECURSIVE FirstOccurrences(_, _)
FirstOccurrences(xs, seen) ==
    IF xs = <<>> THEN <<>>
    ELSE IF Head(xs) \in seen THEN FirstOccurrences(Tail(xs), seen)
    ELSE <<Head(xs)>> \o FirstOccurrences(Tail(xs), seen \cup {Head(xs)})

(***************************************************************************)
(* The tool registry and the inputs of a call.                             *)
(***************************************************************************)
\* config.execution.timeout
DefaultTimeout == 300000

\* toolConfigs of getToolConfiguration: the entries the requests name
toolConfigs ==
    [ dig |->
        [ command |-> "dig",
          args |-> << <<"{domain}">>, <<"ANY">>, <<"+noall">>, <<"+answer">> >>,
          category |-> "dns", timeout |-> 30000, outputType |-> "text" ],
      nslookup |->
        [ command |-> "nslookup",
          args |-> << <<"{domain}">> >>,
          fallback |->
            [ command |-> "sh",
              args |-> << <<"-c">>,
                          <<"dig +short ", "{domain}", " A > ", "{outputFile}">> >> ],
          category |-> "dns", timeout |-> 30000, outputType |-> "text" ],
      subfinder |->
        [ command |-> "subfinder",
          args |-> << <<"-d">>, <<"{domain}">>, <<"-all">>, <<"'-r">>,
                      <<"-o">>, <<"{outputFile}">> >>,
          category |-> "subdomain", timeout |-> 180000, outputType |-> "domains",
          fallback |-> [ description |-> "Not working" ] ] ]

\* own keys of the toolConfigs object
RegisteredTools == DOMAIN toolConfigs

\* names every JavaScript object inherits, so that toolConfigs[name] is
\* truthy although the registry has no such tool
InheritedNames == {"constructor"}

\* tool names a request may carry
ToolNames == RegisteredTools \cup InheritedNames \cup {"nosuch"}

\* the characters of a tool name
NameChars(tool) ==
    CASE tool = "dig" -> <<"d","i","g">>
      [] tool = "nslookup" -> <<"n","s","l","o","o","k","u","p">>
      [] tool = "subfinder" -> <<"s","u","b","f","i","n","d","e","r">>
      [] tool = "constructor" -> <<"c","o","n","s","t","r","u","c","t","o","r">>
      [] tool = "nosuch" -> <<"n","o","s","u","c","h">>

\* domains a call may carry: a.io and a..io
GoodDomain == <<"a", ".", "i", "o">>

BadDomain == <<"a", ".", ".", "i", "o">>

Domains == {GoodDomain, BadDomain}

\* domains with a shell metacharacter, with a NUL character, with a label
\* that begins with a hyphen and with a path
RejectedDomains ==
    { <<"a", ".", "i", "o", ";", "i", "d">>,
      <<"$", "(", "i", "d", ")", ".", "i", "o">>,
      <<"a", ".", "i", "o", "NUL">>,
      <<"-", "a", ".", "i", "o">>,
      <<".", ".", "/", "a", ".", "i", "o">> }

AllDomains == Domains \cup RejectedDomains

\* { ...a, ...b }
Merge(a, b) ==
    [k \in (DOMAIN a) \cup (DOMAIN b) |-> IF k \in DOMAIN b THEN b[k] ELSE a[k]]

\* toolConfigs[tool] is truthy
HasConfiguration(tool) == tool \in RegisteredTools \cup InheritedNames

\* [a-zA-Z0-9](?:[a-zA-Z0-9-]{0,61}[a-zA-Z0-9])?
IsLabel(l) ==
    /\ Len(l) >= 1
    /\ Len(l) <= 63
    /\ l[1] \in Alnum
    /\ l[Len(l)] \in Alnum
    /\ \A i \in 1..Len(l) : l[i] \in Alnum \cup {"-"}

\* domainRegex.test(domain)
DomainRegexTest(domain) ==
    \A i \in 1..Len(Split(domain, ".")) : IsLabel(Split(domain, ".")[i])

\* the backquote and the NUL character, which a TLA+ string cannot hold
Backquote == "BACKQUOTE"

Nul == "NUL"

ShellChars == {";", "&", "|", Backquote, "$", "(", ")", "{", "}", "[", "]"}

\* one of maliciousPatterns matches s
Malicious(s) ==
    \/ \E i \in 1..Len(s) : s[i] \in ShellChars
    \/ Includes(s, <<".", ".">>)
    \/ \E i \in 1..Len(s) : s[i] = Nul

\* validateInputs: the message of the error it throws, "" when it returns
validateInputsOfTheNameOnly(tool, domain) ==
    IF NameChars(tool) = <<>> THEN "Invalid tool name"
    ELSE IF Malicious(NameChars(tool)) THEN "Potentially malicious input detected"
    ELSE ""

validateInputs(tool, domain) ==
    IF NameChars(tool) = <<>> THEN "Invalid tool name"
    ELSE IF domain = <<>> THEN "Invalid domain"
    ELSE IF ~DomainRegexTest(domain) THEN "Invalid domain format"
    ELSE IF Malicious(domain) \/ Malicious(NameChars(tool))
         THEN "Potentially malicious input detected"
    ELSE ""

(***************************************************************************)
(* Parsing of a tool's raw output (ToolExecutor.processResults).           *)
(***************************************************************************)
Tab == "\t"

NoisePatterns ==
    { <<"F","o","u","n","d">>, <<"E","r","r","o","r">>,
      <<"t","i","m","e","o","u","t">>,
      <<"c","o","n","n","e","c","t","i","o","n">>,
      <<"f","a","i","l","e","d">>,
      <<"n","o","t"," ","f","o","u","n","d">> }

\* replace(/[\[\](){}]/g, '')
StripBrackets(s) == SelectSeq(s, LAMBDA ch : ch \notin {"[", "]", "(", ")", "{", "}"})

\* replace(/^[^a-zA-Z0-9]+/, '')
RECURSIVE StripLeading(_)
StripLeading(s) ==
    IF s # <<>> /\ Head(s) \notin Alnum THEN StripLeading(Tail(s)) ELSE s

\* replace(/[^a-zA-Z0-9.-]+$/, '')
RECURSIVE StripTrailing(_)
StripTrailing(s) ==
    IF s # <<>> /\ s[Len(s)] \notin Alnum \cup {".", "-"}
    THEN StripTrailing(SubSeq(s, 1, Len(s) - 1)) ELSE s

\* parts.find(part => part.includes('.') && part.includes(baseDomain)) || parts[0]
FindPart(parts, baseDomain) ==
    LET hits == {i \in 1..Len(parts) :
                    Includes(parts[i], <<".">>) /\ Includes(parts[i], baseDomain)}
    IN  IF hits # {} /\ parts[CHOOSE i \in hits : \A j \in hits : i <= j] # <<>>
        THEN parts[CHOOSE i \in hits : \A j \in hits : i <= j]
        ELSE parts[1]

\* the candidate domain parseDomainsOutput takes out of one trimmed line
ExtractDomain(line, baseDomain) ==
    LET d1 == IF Includes(line, <<Tab>>) THEN Split(line, Tab)[1] ELSE line
        d2 == IF Includes(line, <<" ">>) THEN FindPart(Split(line, " "), baseDomain)
              ELSE d1
    IN  StripTrailing(StripLeading(StripBrackets(d2)))

\* the predicate of the first filter of parseDomainsOutput
KeepDomainLine(line, baseDomain) ==
    LET domain == ExtractDomain(line, baseDomain)
    IN  /\ line # <<>>
        /\ ~StartsWith(line, <<"#">>)
        /\ ~StartsWith(line, <<"/", "/">>)
        /\ ~StartsWith(line, <<";">>)
        /\ \A noise \in NoisePatterns : ~Includes(line, noise)
        /\ Includes(domain, <<".">>)
        /\ (Includes(domain, baseDomain) \/ EndsWith(domain, <<".">> \o baseDomain))
        /\ Len(domain) > 3
        /\ \A i \in 1..Len(domain) : domain[i] \in Alnum \cup {".", "-"}
        /\ ~StartsWith(domain, <<".">>)
        /\ ~EndsWith(domain, <<".">>)

\* the trimmed lines of a raw output
TrimmedLines(output) ==
    LET lines == Split(output, "\n")
    IN  [i \in 1..Len(lines) |-> Trim(lines[i])]

parseDomainsOutput(output, baseDomain) ==
    IF output = <<>> THEN <<>>
    ELSE LET kept == SelectSeq(TrimmedLines(output),
                               LAMBDA line : KeepDomainLine(line, baseDomain))
             domains == [i \in 1..Len(kept) |-> ExtractDomain(kept[i], baseDomain)]
         IN  DefaultSort(FirstOccurrences(domains, {}))

parseTextOutputUntrimmed(output) ==
    IF output = <<>> THEN <<>>
    ELSE SelectSeq(Split(output, "\n"), LAMBDA line : Len(line) > 0)

parseTextOutput(output) ==
    IF output = <<>> THEN <<>>
    ELSE SelectSeq(TrimmedLines(output), LAMBDA line : Len(line) > 0)

(***************************************************************************)
(* The executor: state.                                                    *)
(***************************************************************************)
VARIABLES
    concurrentExecutions,    \* this.concurrentExecutions
    activeProcesses,         \* this.activeProcesses: execution id -> attempt
    processCleanupInterval,  \* the sweep interval is set
    tools,                   \* the tools argument of each call
    toolsIsArray,            \* whether that argument is an array
    domain,                  \* the domain argument of each call
    callPc,                  \* where each executeTools call stands
    batchNo,                 \* the batch executeMultipleTools is awaiting
    results,                 \* the results array of executeMultipleTools
    returned,                \* what each executeTools call returned
    pc,                      \* where each executeSingleTool invocation stands
    fallbackAttempted,       \* context.fallbackAttempted
    proc,                    \* the child processes of each invocation
    runResult,               \* the value runTool resolved with
    file,                    \* the output file of each execution
    clock,                   \* Date.now(), in ms since the executor started
    startTime,               \* startTime of the handle of each execution
    sweeps,                  \* history: how often the sweep has run
    pipeline,                \* a call of the result pipeline and its outcome
    substitution,            \* a call of processCommandArgs and its outcome
    toolResult,              \* what each executeSingleTool invocation returned
    spawnCalls,              \* history: calls of spawn per invocation
    cause,                   \* history: what settled each invocation
    waited,                  \* history: the invocations that found no slot
    completed,               \* history: the tools of a call as they finished
    killAllCalls             \* history: calls of killAllProcesses

vars ==
    << concurrentExecutions, activeProcesses, processCleanupInterval,
       tools, toolsIsArray, domain, callPc, batchNo, results, returned,
       pc, fallbackAttempted, proc, runResult, file, clock, startTime,
       sweeps, pipeline, substitution, toolResult, spawnCalls, cause, waited, completed,
       killAllCalls >>

\* calls of killAllProcesses the model follows
MaxKillAll == 2

\* an executeSingleTool invocation is the i-th tool of call c;
\* it stands for the random execution id generateExecutionId gives it
AllExecs == Callers \X (1..MaxTools)

ExecsOf(c) == {e \in AllExecs : e[1] = c /\ e[2] <= Len(tools[c])}

ToolOf(e) == tools[e[1]][e[2]]

Attempts == {"primary", "fallback"}

NoProcess ==
    [state |-> "none", command |-> "", killed |-> FALSE, signals |-> {},
     sent |-> 0,
     timer |-> FALSE, killTimer |-> FALSE, reading |-> FALSE,
     timedOut |-> FALSE]

NoValue == [none |-> TRUE]

\* the raw outputs a tool's process may leave behind
TextOutput == <<"a", ".", "i", "o", ".", " ", "A", "\n", " ", "\n", "x", " ">>

DomainsOutput ==
    <<"w", ".", "a", ".", "i", "o", "\n", "#", "c", "\n",
      "m", ".", "a", ".", "i", "o", "\n", "w", ".", "a", ".", "i", "o">>

Outputs(tool) ==
    IF toolConfigs[tool].outputType = "domains"
    THEN {<<>>, DomainsOutput} ELSE {<<>>, TextOutput}

\* the parsers applied to the outputs the tools may leave, by tool, output
\* and base domain
ParsedOutputs ==
    [tool \in RegisteredTools |-> [output \in Outputs(tool) |->
        [baseDomain \in Domains |->
            IF toolConfigs[tool].outputType = "domains"
            THEN parseDomainsOutput(output, baseDomain)
            ELSE parseTextOutput(output)]]]

\* validateInputs applied to the names and domains of the requests
Validated ==
    [tool \in ToolNames |-> [d \in AllDomains |-> validateInputs(tool, d)]]

(***************************************************************************)
(* The result pipeline (src/services/results/ResultProcessor.js).          *)
(*                                                                         *)
(* The processor is handed JavaScript values of any type.  A value is a    *)
(* record of its type and of the characters that identify it: the          *)
(* characters of a string, the digits of a number, the identity of an      *)
(* object.                                                                 *)
(***************************************************************************)
Str(s) == [type |-> "string", value |-> s]

Num(digits) == [type |-> "number", value |-> digits]

Obj(id) == [type |-> "object", value |-> id]

Null == [type |-> "null", value |-> <<>>]

RegExpValue == [type |-> "regexp", value |-> <<>>]

Range(xs) == {xs[i] : i \in 1..Len(xs)}

\* what a throw leaves instead of a value
Threw(message) == [threw |-> message]

HasThrown(v) == DOMAIN v = {"threw"}

\* String(v), as includes, sort and the templates apply it
ToStringOf(v) ==
    CASE v.type \in {"string", "number", "boolean"} -> v.value
      [] v.type = "null" -> <<"n", "u", "l", "l">>
      [] v.type = "regexp" -> <<"/", "x", "/">>
      [] OTHER -> <<"[", "o", "b", "j", "e", "c", "t", " ",
                    "O", "b", "j", "e", "c", "t", "]">>

\* !v
Falsy(v) ==
    \/ v.type = "null"
    \/ v.type = "string" /\ v.value = <<>>
    \/ v.type = "number" /\ v.value = <<"0">>

\* the message of the TypeError of s.includes(regexp)
IncludesTypeError ==
    "First argument to String.prototype.includes must not be a regular expression"

LowerLetters ==
    <<"a","b","c","d","e","f","g","h","i","j","k","l","m",
      "n","o","p","q","r","s","t","u","v","w","x","y","z">>

UpperLetters ==
    <<"A","B","C","D","E","F","G","H","I","J","K","L","M",
      "N","O","P","Q","R","S","T","U","V","W","X","Y","Z">>

\* String.prototype.toLowerCase
toLowerCase(s) ==
    [i \in 1..Len(s) |->
        IF s[i] \in Upper
        THEN LowerLetters[CHOOSE n \in 1..26 : UpperLetters[n] = s[i]]
        ELSE s[i]]

\* this.domainRegex.test(s)
domainRegex(s) ==
    s # <<>> /\ \A i \in 1..Len(s) : s[i] \in Alnum \cup {".", "-"}

\* the lines of parseDomainsOutput on which line.includes(baseDomain) is
\* evaluated
ReachesBaseDomain(line) ==
    /\ line # <<>>
    /\ ~StartsWith(line, <<"#">>)
    /\ ~StartsWith(line, <<"/", "/">>)
    /\ ~StartsWith(line, <<"=">>)
    /\ Includes(line, <<".">>)

MaxDomainLength == 253

\* the filter of ResultProcessor.parseDomainsOutput
ProcessorKeepsLine(line, baseDomain) ==
    /\ ReachesBaseDomain(line)
    /\ Includes(line, ToStringOf(baseDomain))
    /\ ~Includes(line, <<" ">>)
    /\ Len(line) > 3
    /\ Len(line) < MaxDomainLength
    /\ domainRegex(line)

\* whether parseDomainsOutput of the processor throws: includes refuses a
\* regular expression
parseDomainsOutputThrows(output, baseDomain) ==
    /\ ~Falsy(output)
    /\ output.type = "string"
    /\ baseDomain.type = "regexp"
    /\ \E line \in Range(TrimmedLines(output.value)) : ReachesBaseDomain(line)

\* parseDomainsOutput of the processor, when it does not throw
ResultProcessor_parseDomainsOutput(output, baseDomain) ==
    IF Falsy(output) \/ output.type # "string" THEN <<>>
    ELSE LET kept == SelectSeq(TrimmedLines(output.value),
                        LAMBDA line : ProcessorKeepsLine(line, baseDomain))
         IN  [i \in 1..Len(kept) |-> Str(toLowerCase(kept[i]))]

\* parseTextOutput of the processor
ResultProcessor_parseTextOutput(output) ==
    IF Falsy(output) \/ output.type # "string" THEN <<>>
    ELSE LET kept == SelectSeq(TrimmedLines(output.value),
                               LAMBDA line : Len(line) > 0)
         IN  [i \in 1..Len(kept) |-> Str(kept[i])]

\* the decimal value of a string of digits
RECURSIVE DigitsValue(_, _)
DigitsValue(s, acc) ==
    IF s = <<>> \/ Head(s) \notin Digit THEN acc
    ELSE DigitsValue(Tail(s), 10 * acc + (CHOOSE n \in 0..9 : ToString(n) = Head(s)))

NaN == 0 - 1

\* parseInt(s, 10) for a string without sign and leading white space: the
\* value of the leading digits, NaN when there is none
parseInt(s) ==
    IF s = <<>> \/ Head(s) \notin Digit THEN NaN ELSE DigitsValue(s, 0)

\* Number.prototype.toString
RECURSIVE NumberToString(_)
NumberToString(n) ==
    IF n = NaN THEN <<"N", "a", "N">>
    ELSE IF n < 10 THEN <<ToString(n)>>
    ELSE Append(NumberToString(n \div 10), ToString(n % 10))

\* String.prototype.padStart(width, '0')
RECURSIVE padStart(_, _)
padStart(s, width) ==
    IF Len(s) >= width THEN s ELSE padStart(<<"0">> \o s, width)

\* one octet of this.ipRegex: 25[0-5]|2[0-4][0-9]|[01]?[0-9][0-9]?
Octet(s) ==
    /\ Len(s) \in 1..3
    /\ \A i \in 1..Len(s) : s[i] \in Digit
    /\ Len(s) = 3 => DigitsValue(s, 0) <= 255

\* this.ipRegex.test(s)
ipRegex(s) ==
    LET parts == Split(s, ".")
    IN  Len(parts) = 4 /\ \A i \in 1..4 : Octet(parts[i])

\* parseIPsOutput
parseIPsOutput(output) ==
    IF Falsy(output) \/ output.type # "string" THEN <<>>
    ELSE LET kept == SelectSeq(TrimmedLines(output.value),
                               LAMBDA line : line # <<>> /\ ipRegex(line))
         IN  [i \in 1..Len(kept) |-> Str(kept[i])]

\* the length of the longest prefix of s over the characters of chars
RECURSIVE RunLength(_, _)
RunLength(s, chars) ==
    IF s = <<>> \/ Head(s) \notin chars THEN 0
    ELSE 1 + RunLength(Tail(s), chars)

Drop(s, n) == SubSeq(s, n + 1, Len(s))

\* the length of the longest prefix of s without white space: [^\s]+
RECURSIVE NonSpaceRun(_)
NonSpaceRun(s) ==
    IF s = <<>> \/ Head(s) \in WhiteSpace THEN 0
    ELSE 1 + NonSpaceRun(Tail(s))

\* the length of the match of /https?:\/\/[^\s]+/ at the start of s, 0 when
\* there is none
UrlMatchLength(s) ==
    LET scheme == IF StartsWith(s, <<"h","t","t","p",":","/","/">>) THEN 7
                  ELSE IF StartsWith(s, <<"h","t","t","p","s",":","/","/">>) THEN 8
                  ELSE 0
        rest == NonSpaceRun(Drop(s, scheme))
    IN  IF scheme > 0 /\ rest > 0 THEN scheme + rest ELSE 0

\* output.match(this.urlRegex) || []
RECURSIVE MatchUrls(_)
MatchUrls(s) ==
    IF s = <<>> THEN <<>>
    ELSE IF UrlMatchLength(s) > 0
    THEN <<SubSeq(s, 1, UrlMatchLength(s))>> \o MatchUrls(Drop(s, UrlMatchLength(s)))
    ELSE MatchUrls(Tail(s))

MaxUrlLength == 2048

\* parseUrlsOutput
parseUrlsOutput(output) ==
    IF Falsy(output) \/ output.type # "string" THEN <<>>
    ELSE LET urls == MatchUrls(output.value)
             trimmed == [i \in 1..Len(urls) |-> Trim(urls[i])]
             kept == SelectSeq(trimmed,
                        LAMBDA url : Len(url) > 0 /\ Len(url) < MaxUrlLength)
         IN  [i \in 1..Len(kept) |-> Str(kept[i])]

LocalChars == Alnum \cup {".", "_", "%", "+", "-"}

HostChars == Alnum \cup {".", "-"}

Letters == Lower \cup Upper

\* the length of the match of [a-zA-Z0-9.-]+\.[a-zA-Z]{2,} at the start of
\* s, 0 when there is none: the greedy + gives back characters down to the
\* last dot that two letters follow
HostMatchLength(s) ==
    LET run == RunLength(s, HostChars)
        dots == {p \in 2..run : /\ s[p] = "."
                                /\ RunLength(Drop(s, p), Letters) >= 2}
        last == CHOOSE p \in dots : \A q \in dots : q <= p
    IN  IF dots = {} THEN 0 ELSE last + RunLength(Drop(s, last), Letters)

\* the length of the match of this.emailRegex at the start of s
EmailMatchLength(s) ==
    LET local == RunLength(s, LocalChars)
        host == HostMatchLength(Drop(s, local + 1))
    IN  IF local > 0 /\ Len(s) > local /\ s[local + 1] = "@" /\ host > 0
        THEN local + 1 + host ELSE 0

\* output.match(this.emailRegex) || []
RECURSIVE MatchEmails(_)
MatchEmails(s) ==
    IF s = <<>> THEN <<>>
    ELSE IF EmailMatchLength(s) > 0
    THEN <<SubSeq(s, 1, EmailMatchLength(s))>>
             \o MatchEmails(Drop(s, EmailMatchLength(s)))
    ELSE MatchEmails(Tail(s))

MaxEmailLength == 320

\* parseEmailsOutput
parseEmailsOutput(output) ==
    IF Falsy(output) \/ output.type # "string" THEN <<>>
    ELSE LET emails == MatchEmails(output.value)
             lowered == [i \in 1..Len(emails) |-> Trim(toLowerCase(emails[i]))]
             kept == SelectSeq(lowered,
                        LAMBDA email : Len(email) > 0 /\ Len(email) < MaxEmailLength)
         IN  [i \in 1..Len(kept) |-> Str(kept[i])]

Quote == "\""

True == [type |-> "boolean", value |-> <<"t", "r", "u", "e">>]

False == [type |-> "boolean", value |-> <<"f", "a", "l", "s", "e">>]

SyntaxError == Threw("Unexpected token in JSON")

\* JSON.parse of one token that is no array: null, true, false, a natural
\* number, a string without escapes, or the empty object (identified by
\* the position id it is found at)
JSONScalar(token, id) ==
    CASE token = <<"n", "u", "l", "l">> -> Null
      [] token = <<"t", "r", "u", "e">> -> True
      [] token = <<"f", "a", "l", "s", "e">> -> False
      [] /\ token # <<>>
         /\ \A i \in 1..Len(token) : token[i] \in Digit
         /\ (Len(token) > 1 => token[1] # "0") -> Num(token)
      [] /\ Len(token) >= 2
         /\ token[1] = Quote
         /\ token[Len(token)] = Quote
         /\ \A i \in 2..(Len(token) - 1) : token[i] \notin {Quote, "\\", "\n", "\t", "\r"}
           -> Str(SubSeq(token, 2, Len(token) - 1))
      [] /\ Len(token) >= 2
         /\ token[1] = "{"
         /\ token[Len(token)] = "}"
         /\ Trim(SubSeq(token, 2, Len(token) - 1)) = <<>> -> Obj(<<ToString(id)>>)
      [] OTHER -> SyntaxError

\* JSON.parse, on the part of JSON the raw outputs of the model are written
\* in: a scalar, or an array of scalars none of which holds a comma; every
\* other text of the model is no JSON at all.  An array is returned as
\* [type |-> "array", items |-> ...].
JSONparse(text) ==
    LET token == Trim(text)
        inner == Trim(SubSeq(token, 2, Len(token) - 1))
        parts == Split(inner, ",")
        items == [i \in 1..Len(parts) |-> JSONScalar(Trim(parts[i]), i)]
    IN  IF Len(token) >= 2 /\ token[1] = "[" /\ token[Len(token)] = "]"
        THEN IF inner = <<>> THEN [type |-> "array", items |-> <<>>]
             ELSE IF \E i \in 1..Len(items) : HasThrown(items[i]) THEN SyntaxError
             ELSE [type |-> "array", items |-> items]
        ELSE JSONScalar(token, 0)

parseJsonOutputNothingOnError(output) ==
    IF Falsy(output) \/ output.type # "string" THEN <<>>
    ELSE LET parsed == JSONparse(output.value)
         IN  IF HasThrown(parsed) THEN <<>>
             ELSE IF parsed.type = "array" THEN parsed.items
             ELSE IF parsed.type \in {"object", "null"} THEN <<parsed>>
             ELSE <<>>

\* parseJsonOutput: typeof null is 'object' too
parseJsonOutput(output) ==
    IF Falsy(output) \/ output.type # "string" THEN <<>>
    ELSE LET parsed == JSONparse(output.value)
         IN  IF HasThrown(parsed) THEN ResultProcessor_parseTextOutput(output)
             ELSE IF parsed.type = "array" THEN parsed.items
             ELSE IF parsed.type \in {"object", "null"} THEN <<parsed>>
             ELSE <<>>

\* whether validateResults throws
validateResultsThrows(rs, outputType, queried) ==
    /\ outputType = "domains"
    /\ queried.type = "regexp"
    /\ \E r \in Range(rs) : r.type = "string" /\ Includes(r.value, <<".">>)

\* the filters of validateResults, by output type
Valid(r, outputType, queried) ==
    /\ r.type = "string"
    /\ CASE outputType = "domains" ->
                /\ Includes(r.value, <<".">>)
                /\ Includes(r.value, ToStringOf(queried))
                /\ domainRegex(r.value)
         [] outputType = "urls" ->
                \/ StartsWith(r.value, <<"h","t","t","p",":","/","/">>)
                \/ StartsWith(r.value, <<"h","t","t","p","s",":","/","/">>)
         [] outputType = "emails" ->
                Includes(r.value, <<"@">>) /\ Includes(r.value, <<".">>)
         [] outputType = "ips" -> ipRegex(r.value)
         [] OTHER -> Len(r.value) > 0

validateResults(rs, outputType, queried) ==
    SelectSeq(rs, LAMBDA r : Valid(r, outputType, queried))

deduplicateResultsKeepsAll(rs) == rs

\* [...new Set(results)] keeps the first of equal elements only
deduplicateResults(rs) == FirstOccurrences(rs, {})

\* a.localeCompare(b) < 0, on strings of lower-case letters, digits, dots
\* and hyphens: the root collation orders these as their code units
localeCompareBefore(a, b) == StrLess(a, b)

\* the comparator of sortResults for domains returns a negative number
DomainBefore(a, b) ==
    IF Len(a) # Len(b) THEN Len(a) < Len(b) ELSE localeCompareBefore(a, b)

\* a.split('.').map(num => parseInt(num, 10).toString().padStart(3, '0')).join('')
RECURSIVE Join(_)
Join(parts) == IF parts = <<>> THEN <<>> ELSE Head(parts) \o Join(Tail(parts))

OctetWidth == 3

IPKeyUnpadded(ip) ==
    LET parts == Split(ip, ".")
    IN  Join([i \in 1..Len(parts) |-> NumberToString(parseInt(parts[i]))])

IPKey(ip) ==
    LET parts == Split(ip, ".")
    IN  Join([i \in 1..Len(parts) |->
                 padStart(NumberToString(parseInt(parts[i])), OctetWidth)])

\* the comparator of sortResults for ips returns a negative number
IPBefore(a, b) == localeCompareBefore(IPKey(a), IPKey(b))

\* Array.prototype.sort is stable: x goes behind what it is not before
RECURSIVE InsertBy(_, _, _)
InsertBy(x, xs, before) ==
    IF xs = <<>> THEN <<x>>
    ELSE IF before[x, Head(xs)] THEN <<x>> \o xs
    ELSE <<Head(xs)>> \o InsertBy(x, Tail(xs), before)

RECURSIVE SortBy(_, _)
SortBy(xs, before) ==
    IF xs = <<>> THEN <<>>
    ELSE InsertBy(xs[Len(xs)], SortBy(SubSeq(xs, 1, Len(xs) - 1), before), before)

sortResults(rs, outputType) ==
    SortBy(rs, [a \in Range(rs), b \in Range(rs) |->
                   CASE outputType = "domains" -> DomainBefore(a.value, b.value)
                     [] outputType = "ips" -> IPBefore(a.value, b.value)
                     [] OTHER -> StrLess(ToStringOf(a), ToStringOf(b))])

DefaultMaxResults == 10000

\* the options of processResults after destructuring with the defaults
Destructured(options) ==
    [outputType |-> IF "outputType" \in DOMAIN options
                    THEN options.outputType ELSE "domains",
     maxResults |-> IF "maxResults" \in DOMAIN options
                    THEN options.maxResults ELSE DefaultMaxResults,
     deduplicate |-> IF "deduplicate" \in DOMAIN options
                     THEN options.deduplicate ELSE TRUE,
     validate |-> IF "validate" \in DOMAIN options THEN options.validate ELSE TRUE,
     sort |-> IF "sort" \in DOMAIN options THEN options.sort ELSE TRUE]

\* the switch of processResults
Parsed(rawOutput, queried, outputType) ==
    CASE outputType = "domains" -> ResultProcessor_parseDomainsOutput(rawOutput, queried)
      [] outputType = "urls" -> parseUrlsOutput(rawOutput)
      [] outputType = "emails" -> parseEmailsOutput(rawOutput)
      [] outputType = "ips" -> parseIPsOutput(rawOutput)
      [] outputType = "json" -> parseJsonOutput(rawOutput)
      [] OTHER -> ResultProcessor_parseTextOutput(rawOutput)

\* the list before truncation: validated, deduplicated and sorted as the
\* options ask
Prepared(rawOutput, queried, o) ==
    CHOOSE sorted \in
        {IF o.sort THEN sortResults(unique, o.outputType) ELSE unique :
            unique \in
                {IF o.deduplicate THEN deduplicateResults(validated) ELSE validated :
                    validated \in
                        {IF o.validate
                         THEN validateResults(parsed, o.outputType, queried)
                         ELSE parsed :
                             parsed \in {Parsed(rawOutput, queried, o.outputType)}}}} :
        TRUE

\* whether the try block of processResults throws
ProcessingThrows(rawOutput, queried, o) ==
    \/ o.outputType = "domains" /\ parseDomainsOutputThrows(rawOutput, queried)
    \/ /\ o.validate
       /\ validateResultsThrows(Parsed(rawOutput, queried, o.outputType),
                                o.outputType, queried)

\* if (maxResults && results.length > maxResults) results.slice(0, maxResults)
Truncated(rs, maxResults) ==
    IF maxResults # 0 /\ Len(rs) > maxResults THEN SubSeq(rs, 1, maxResults) ELSE rs

createEmptyResult(tool, queried) ==
    [tool |-> tool, domain |-> queried, results |-> <<>>, count |-> 0,
     processed |-> TRUE,
     metadata |-> [originalLength |-> 0, processedCount |-> 0]]

\* what the catch block of processResults returns
ProcessingFailed(tool, queried, message) ==
    [tool |-> tool, domain |-> queried, results |-> <<>>, count |-> 0,
     error |-> message, processed |-> FALSE]

\* the try block of ResultProcessor.processResults: a result, or a throw
TryProcessing(tool, rawOutput, queried, options) ==
    LET o == Destructured(options)
    IN  IF Falsy(rawOutput) \/ rawOutput.type # "string"
        THEN createEmptyResult(tool, queried)
        ELSE IF ProcessingThrows(rawOutput, queried, o)
        THEN Threw(IncludesTypeError)
        ELSE CHOOSE result \in
                 {[tool |-> tool, domain |-> queried, results |-> rs,
                   count |-> Len(rs), outputType |-> o.outputType,
                   processed |-> TRUE,
                   metadata |-> [originalLength |-> Len(rawOutput.value),
                                 processedCount |-> Len(rs)]] :
                     rs \in {Truncated(prepared, o.maxResults) :
                                prepared \in {Prepared(rawOutput, queried, o)}}} :
                 TRUE

ResultProcessor_processResultsUncaught(tool, rawOutput, queried, options) ==
    TryProcessing(tool, rawOutput, queried, options)

\* ResultProcessor.processResults: the catch block turns a throw into a
\* result without entries
ResultProcessor_processResults(tool, rawOutput, queried, options) ==
    CHOOSE result \in
        {IF HasThrown(r) THEN ProcessingFailed(tool, queried, r.threw) ELSE r :
            r \in {TryProcessing(tool, rawOutput, queried, options)}} :
        TRUE

(***************************************************************************)
(* Processing of a result by the executor, for any tool and any output     *)
(* (ToolExecutor.processResults).                                          *)
(***************************************************************************)
\* the try block of processResults: getToolConfiguration throws for a name
\* without configuration; the parsers return [] for what is no string
TryProcessResults(tool, result, context) ==
    LET outputType == IF tool \in RegisteredTools
                      THEN toolConfigs[tool].outputType ELSE "undefined"
        text == result.output.type = "string"
        parsedResults ==
            IF ~text THEN <<>>
            ELSE IF outputType = "domains"
            THEN parseDomainsOutput(result.output.value, context.domain)
            ELSE parseTextOutput(result.output.value)
    IN  IF ~HasConfiguration(tool) THEN Threw(<<"Unknown tool: ", tool>>)
        ELSE [results |-> parsedResults,
              count |-> Len(parsedResults),
              rawOutput |-> result.output,
              metadata |-> [tool |-> tool, outputType |-> outputType]]

ToolExecutor_processResultsUncaught(tool, result, context) ==
    TryProcessResults(tool, result, context)

\* processResults of the executor: the catch block turns a throw into a
\* result without entries
ToolExecutor_processResults(tool, result, context) ==
    CHOOSE processedResult \in
        {IF HasThrown(r)
         THEN [results |-> <<>>, count |-> 0, rawOutput |-> result.output,
               error |-> r.threw]
         ELSE r :
            r \in {TryProcessResults(tool, result, context)}} :
        TRUE

(***************************************************************************)
(* The calls of the pipeline the model makes.                              *)
(***************************************************************************)
\* the domain of scenario B: example.com
ExampleDomain ==
    <<"e", "x", "a", "m", "p", "l", "e", ".", "c", "o", "m">>

\* the raw output of scenario A, an answer of dig
ScenarioAOutput ==
    <<"e", "x", "a", "m", "p", "l", "e", ".", "c", "o", "m", ".", " ", "3",
      "0", "0", " ", "I", "N", " ", "A", " ", "9", "3", ".", "1", "8", "4",
      ".", "2", "1", "6", ".", "3", "4">>

\* the raw output of scenario B
ScenarioBOutput ==
    <<"w", "w", "w", ".", "e", "x", "a", "m", "p", "l", "e", ".", "c", "o",
      "m", "\n", "m", "a", "i", "l", ".", "e", "x", "a", "m", "p", "l",
      "e", ".", "c", "o", "m", "\n", "#", "c", "o", "m", "m", "e", "n",
      "t", "\n", "i", "n", "v", "a", "l", "i", "d", ".", ".", "e", "x",
      "a", "m", "p", "l", "e", ".", "c", "o", "m">>

\* lines about a.io: a noise token, dots at the ends, a comment, a blank line,
\* capitals
NoisyOutput ==
    <<"E", "r", "r", "o", "r", ".", "a", ".", "i", "o", "\n", ".", "a",
      ".", "i", "o", "\n", ";", "x", ".", "a", ".", "i", "o", "\n", "\n",
      "M", "M", ".", "a", ".", "i", "o", "\n", "w", ".", "a", ".", "i",
      "o", "\n", "m", "m", ".", "a", ".", "i", "o", "\n", "b", ".", "a",
      ".", "i", "o", ".">>

\* a text with URLs
UrlsOutput ==
    <<"x", " ", "h", "t", "t", "p", ":", "/", "/", "a", ".", "i", "o", "/",
      "p", " ", "h", "t", "t", "p", "s", ":", "/", "/", "w", ".", "a", ".",
      "i", "o", "\n", "f", "t", "p", ":", "/", "/", "a", ".", "i", "o",
      " ", "h", "t", "t", "p", ":", "/", "/">>

\* a text with e-mail addresses
EmailsOutput ==
    <<"B", "@", "a", ".", "i", "o", ",", " ", "b", "@", "a", ".", "i", "o",
      " ", "c", "@", "d", " ", "x", "@", "a", ".", "i">>

\* a JSON array of scalars
JsonArrayOutput ==
    <<"[", Quote, "w", ".", "a", ".", "i", "o", Quote, ",", " ", "7", ",",
      " ", "n", "u", "l", "l", ",", " ", "{", "}", ",", " ", "{", "}", ",",
      " ", Quote, "w", ".", "a", ".", "i", "o", Quote, ",", " ", "t", "r",
      "u", "e", "]">>

\* a JSON object
JsonObjectOutput ==
    <<"{", "}">>

\* the JSON null
JsonNullOutput ==
    <<"n", "u", "l", "l">>

MaxIPs == 3

MaxMaxResults == 3

\* valid IPv4 addresses whose numeric order is not the order of their text
IPs ==
    { <<"9", ".", "0", ".", "0", ".", "1">>,
      <<"1", "0", ".", "0", ".", "0", ".", "1">>,
      <<"1", ".", "2", ".", "3", ".", "4">>,
      <<"1", ".", "1", "0", ".", "0", ".", "0">> }

IPLists == UNION {[1..n -> IPs] : n \in 1..MaxIPs}

\* lines.join('\n')
RECURSIVE JoinLines(_)
JoinLines(lines) ==
    IF Len(lines) = 1 THEN Head(lines)
    ELSE Head(lines) \o <<"\n">> \o JoinLines(Tail(lines))

\* raw outputs: empty, no strings, and texts for every parser
RawOutputs ==
    { Str(<<>>), Null, Num(<<"7">>),
      Str(ScenarioAOutput), Str(ScenarioBOutput), Str(NoisyOutput),
      Str(TextOutput), Str(DomainsOutput),
      Str(UrlsOutput), Str(EmailsOutput),
      Str(JsonArrayOutput), Str(JsonObjectOutput), Str(JsonNullOutput),
      Str(JoinLines(<<CHOOSE ip \in IPs : Len(ip) = 8,
                      <<"2", "5", "6", ".", "1", ".", "1", ".", "1">>,
                      CHOOSE ip \in IPs : Head(ip) = "9">>)) }

\* the output types of the switch of processResults, and one it does not know
OutputTypes == {"domains", "urls", "emails", "ips", "json", "text", "csv"}

\* options objects: none of the keys, the output type alone, a limit, the
\* steps switched on and off one by one, and a limit with every step off
OptionsObjects ==
    {<<>>}
      \cup {[outputType |-> t] : t \in OutputTypes}
      \cup {[outputType |-> t, maxResults |-> m] :
               t \in {"domains", "text"}, m \in 0..MaxMaxResults}
      \cup {[outputType |-> t, validate |-> v, deduplicate |-> d, sort |-> s] :
               t \in OutputTypes, v \in BOOLEAN, d \in BOOLEAN, s \in BOOLEAN}
      \cup {[outputType |-> t, maxResults |-> m, validate |-> FALSE,
             deduplicate |-> FALSE, sort |-> FALSE] :
               t \in {"domains", "text"}, m \in 0..MaxMaxResults}

\* the calls of processResults: every raw output under every options
\* object, and lists of addresses to sort
PipelineRequests ==
    {[tool |-> t, rawOutput |-> raw, domain |-> d, options |-> o] :
        t \in {"subfinder", "dig", "nosuch"}, raw \in RawOutputs,
        d \in {Str(ExampleDomain), Str(GoodDomain), RegExpValue},
        o \in OptionsObjects}
      \cup {[tool |-> "dig", rawOutput |-> Str(JoinLines(ips)),
             domain |-> Str(GoodDomain), options |-> o] :
               ips \in IPLists,
               o \in {[outputType |-> "ips"],
                      [outputType |-> "ips", deduplicate |-> FALSE]}}

\* no call of processCommandArgs
NoSubstitution == [args |-> <<>>, replacements |-> <<>>, processedArgs |-> <<>>]

\* no call of the pipeline
NoPipeline == [request |-> NoValue, processed |-> NoValue, executed |-> NoValue]

\* tool lists of every length up to MaxTools over the given names
ListsOver(names) == UNION {[1..n -> names] : n \in 1..MaxTools}

ToolLists == ListsOver(ToolNames)

\* the names overlapping calls are run with: a tool without fallback, a
\* tool with one and a name the registry does not have
CoreNames == {"dig", "nslookup", "nosuch"} \cup InheritedNames

RECURSIVE TotalLen(_, _)
TotalLen(lists, n) ==
    IF n = 0 THEN 0 ELSE Len(lists[n]) + TotalLen(lists, n - 1)

TypeOK ==
    /\ concurrentExecutions \in Int
    /\ DOMAIN activeProcesses \subseteq AllExecs
    /\ \A e \in DOMAIN activeProcesses : activeProcesses[e] \in Attempts
    /\ processCleanupInterval \in BOOLEAN
    /\ \A c \in Callers :
          /\ tools[c] \in ToolLists \cup {<<>>}
          /\ toolsIsArray[c] \in BOOLEAN
          /\ domain[c] \in AllDomains
          /\ callPc[c] \in {"absent", "ready", "running", "returned"}
          /\ batchNo[c] \in 0..MaxTools
    /\ \A e \in AllExecs :
          /\ pc[e] \in {"pending", "waiting", "awaiting", "processing", "done"}
          /\ fallbackAttempted[e] \in BOOLEAN
          /\ \A a \in Attempts :
                proc[e][a].state \in {"none", "running", "exited", "failed"}
          /\ spawnCalls[e] \in 0..2
          /\ file[e] \in {"missing", "empty", "full"}
          /\ startTime[e] \in 0..clock
          /\ (e \in waited) \in BOOLEAN
          /\ cause[e] \in {"none", "unknown", "invalid", "no args", "spawn",
                           "timeout", "close"}
    /\ killAllCalls \in 0..MaxKillAll
    /\ clock \in 0..(MaxTicks * TickMs)
    /\ sweeps \in 0..MaxSweeps
    /\ DOMAIN pipeline = {"request", "processed", "executed"}
    /\ pipeline.request \in PipelineRequests \cup {NoValue}
    /\ DOMAIN substitution = {"args", "replacements", "processedArgs"}
    /\ Len(substitution.processedArgs) \in {0, Len(substitution.args)}

\* the requests of the first n callers: a caller that does not call has no
\* list, the lists of the callers get no longer from one caller to the next
\* (which caller has which list does not matter) and MaxExecs tools are
\* asked for at most
RECURSIVE Requests(_, _, _)
Requests(lists, calling, n) ==
    IF n = 0 THEN {<<>>}
    ELSE LET more == IF n \in calling THEN lists \cup {<<>>} ELSE {<<>>}
         IN  {Append(x[1], x[2]) :
                 x \in {y \in Requests(lists, calling, n - 1) \X more :
                           /\ n > 1 => Len(y[2]) <= Len(y[1][n - 1])
                           /\ TotalLen(y[1], n - 1) + Len(y[2]) <= MaxExecs}}

\* The state after construction, with the calls that are going to be made:
\* every caller of calling calls executeTools once, with a list of lists or
\* with a value that is no array (callers are interchangeable, so the
\* longer list goes to the lower caller).
InitFor(lists, calling, domains) ==
    /\ concurrentExecutions = 0
    /\ activeProcesses = [e \in {} |-> "primary"]
    /\ processCleanupInterval = TRUE
    /\ tools \in Requests(lists, calling, NumCallers)
    /\ toolsIsArray = [c \in Callers |-> tools[c] # <<>>]
    /\ domain \in [Callers -> domains]
    /\ \A c \in Callers : tools[c] = <<>> => domain[c] = GoodDomain
    /\ callPc = [c \in Callers |-> IF c \in calling THEN "ready" ELSE "absent"]
    /\ batchNo = [c \in Callers |-> 0]
    /\ results = [c \in Callers |-> <<>>]
    /\ returned = [c \in Callers |-> NoValue]
    /\ pc = [e \in AllExecs |-> "pending"]
    /\ fallbackAttempted = [e \in AllExecs |-> FALSE]
    /\ proc = [e \in AllExecs |-> [a \in Attempts |-> NoProcess]]
    /\ runResult = [e \in AllExecs |-> NoValue]
    /\ file = [e \in AllExecs |-> "missing"]
    /\ clock = 0
    /\ sweeps = 0
    /\ startTime = [e \in AllExecs |-> 0]
    /\ toolResult = [e \in AllExecs |-> NoValue]
    /\ spawnCalls = [e \in AllExecs |-> 0]
    /\ cause = [e \in AllExecs |-> "none"]
    /\ waited = {}
    /\ completed = [c \in Callers |-> <<>>]
    /\ killAllCalls = 0

\* the calls carry a.io or a..io
InitWith(lists, calling) == InitFor(lists, calling, Domains)

\* overlapping calls over the core names
Init ==
    /\ InitWith(ListsOver(CoreNames), Callers)
    /\ pipeline = NoPipeline
    /\ substitution = NoSubstitution

(***************************************************************************)
(* The executor: helpers.                                                  *)
(***************************************************************************)
Min(a, b) == IF a <= b THEN a ELSE b

Remove(f, e) == [x \in (DOMAIN f) \ {e} |-> f[x]]

Put(f, e, v) == [x \in (DOMAIN f) \cup {e} |-> IF x = e THEN v ELSE f[x]]

\* createConcurrentBatches: the batches as ranges of positions of the list
BatchSize(ts) == Min(MaxConcurrent, Len(ts))

NumBatches(ts) ==
    IF Len(ts) = 0 THEN 0 ELSE (Len(ts) + BatchSize(ts) - 1) \div BatchSize(ts)

BatchRange(ts, k) ==
    ((k - 1) * BatchSize(ts) + 1) .. Min(k * BatchSize(ts), Len(ts))

\* batches that are full only: what is left of the list is dropped
BatchesOfFullSize(ts, maxConcurrent) ==
    IF Len(ts) = 0 THEN <<>>
    ELSE LET batchSize == Min(maxConcurrent, Len(ts))
         IN  [k \in 1..(Len(ts) \div batchSize) |->
                 SubSeq(ts, (k - 1) * batchSize + 1, k * batchSize)]

\* the loop of createConcurrentBatches from position i (counted from 0):
\* batches.push(tools.slice(i, i + batchSize)) while i < tools.length
RECURSIVE BatchLoop(_, _, _)
BatchLoop(ts, batchSize, i) ==
    IF i < Len(ts)
    THEN <<SubSeq(ts, i + 1, Min(i + batchSize, Len(ts)))>>
             \o BatchLoop(ts, batchSize, i + batchSize)
    ELSE <<>>

\* createConcurrentBatches for an executor whose limit is maxConcurrent
Batches(ts, maxConcurrent) ==
    BatchLoop(ts, Min(maxConcurrent, Len(ts)), 0)

createConcurrentBatches(ts) == Batches(ts, MaxConcurrent)

\* the invocations of batch k of call c
BatchExecs(c, k) == {<<c, i>> : i \in BatchRange(tools[c], k)}

\* a fallback attempt that runs the configuration of the primary again
AttemptConfigOfPrimary(tool, a) == toolConfigs[tool]

\* the configuration of an attempt: the fallback attempt runs
\* {...toolConfig, ...toolConfig.fallback}
AttemptConfig(tool, a) ==
    IF a = "fallback"
    THEN Merge(toolConfigs[tool], toolConfigs[tool].fallback)
    ELSE toolConfigs[tool]

\* toolConfig.timeout || config.execution.timeout
TimeoutOf(cfg) ==
    IF "timeout" \in DOMAIN cfg /\ cfg.timeout # 0 THEN cfg.timeout
    ELSE DefaultTimeout

TimeoutMessage(ms) == <<"Tool execution timeout after ", ms, "ms">>

\* a catch block that leaves the tool name out
FailedResultWithoutTool(e, message) ==
    [success |-> FALSE, domain |-> domain[e[1]],
     executionId |-> e, error |-> message, results |-> <<>>]

\* the object the catch block of executeSingleTool returns
FailedResult(e, message) ==
    [success |-> FALSE, tool |-> ToolOf(e), domain |-> domain[e[1]],
     executionId |-> e, error |-> message, results |-> <<>>]

\* processResults of the executor, for a tool that has a configuration
processResults(tool, output, baseDomain) ==
    LET parsedResults == ParsedOutputs[tool][output][baseDomain]
    IN  [results |-> parsedResults,
         count |-> Len(parsedResults),
         rawOutput |-> output,
         metadata |-> [tool |-> tool, outputType |-> toolConfigs[tool].outputType]]

\* the object the try block of executeSingleTool returns
SucceededResult(e, processed) ==
    Merge([success |-> TRUE, tool |-> ToolOf(e), domain |-> domain[e[1]],
           executionId |-> e], processed)

\* a catch block that throws the error on
SettlementRethrown(e) ==
    IF toolResult[e].success
    THEN [status |-> "fulfilled", value |-> toolResult[e]]
    ELSE [status |-> "rejected", reason |-> toolResult[e].error]

\* how the promise of an executeSingleTool invocation settles
Settlement(e) == [status |-> "fulfilled", value |-> toolResult[e]]

\* results pushed as the tools of the batch finish
BatchResultsAsCompleted(c, k) ==
    LET finished == SelectSeq(completed[c],
                              LAMBDA i : i \in BatchRange(tools[c], k))
    IN  [j \in 1..Len(finished) |-> toolResult[<<c, finished[j]>>]]

\* the loop of executeMultipleTools over Promise.allSettled's outcomes
BatchResults(c, k) ==
    LET first == (k - 1) * BatchSize(tools[c])
        n == Cardinality(BatchRange(tools[c], k))
    IN  [j \in 1..n |->
            IF Settlement(<<c, first + j>>).status = "fulfilled"
            THEN Settlement(<<c, first + j>>).value
            ELSE [success |-> FALSE, error |-> "rejected", results |-> <<>>]]

\* a total that counts the ToolResults, not their entries
SumLengthsCountsToolResults(rs) == Len(rs)

RECURSIVE SumLengths(_)
SumLengths(rs) ==
    IF rs = <<>> THEN 0
    ELSE (IF "results" \in DOMAIN Head(rs) THEN Len(Head(rs).results) ELSE 0)
         + SumLengths(Tail(rs))

\* a success flag that asks for one tool that succeeded
ExecutionResultSome(c, rs) ==
    [success |-> \E i \in 1..Len(rs) : rs[i].success,
     executionId |-> c, results |-> rs,
     metadata |-> [domain |-> domain[c], tools |-> tools[c],
                   totalResults |-> SumLengths(rs)]]

\* a success flag that asks for every tool to succeed
ExecutionResultEvery(c, rs) ==
    [success |-> \A i \in 1..Len(rs) : rs[i].success,
     executionId |-> c, results |-> rs,
     metadata |-> [domain |-> domain[c], tools |-> tools[c],
                   totalResults |-> SumLengths(rs)]]

\* the object executeTools returns when executeMultipleTools returned rs
ExecutionResult(c, rs) ==
    [success |-> TRUE, executionId |-> c, results |-> rs,
     metadata |-> [domain |-> domain[c], tools |-> tools[c],
                   totalResults |-> SumLengths(rs)]]

\* the object executeTools returns when executeMultipleTools threw
StructuralFailure(c, message) ==
    [success |-> FALSE, executionId |-> c, error |-> message, results |-> <<>>]

\* getStats
getStats ==
    [activeProcesses |-> Cardinality(DOMAIN activeProcesses),
     concurrentExecutions |-> concurrentExecutions,
     maxConcurrent |-> MaxConcurrent,
     queueLength |-> 0]

(***************************************************************************)
(* The executor: operations.                                               *)
(*                                                                         *)
(* Between the slot test of waitForExecutionSlot and the await of the      *)
(* promise of runTool, executeSingleTool awaits only promises that are     *)
(* already settled, and a process that cannot be started emits 'error'     *)
(* and 'close' on the next tick: no timer or process event runs in         *)
(* between, so the launch of a tool is one step.                           *)
(***************************************************************************)
\* how the launch of a tool may go: the error thrown before spawn, or what
\* spawn does for the primary command and, after ENOENT, for the fallback
LaunchOutcomes(e) ==
    LET tool == ToolOf(e)
    IN  IF ~HasConfiguration(tool) THEN {<<"unknown">>}
        ELSE IF Validated[tool][domain[e[1]]] # "" THEN {<<"invalid">>}
        ELSE IF tool \notin RegisteredTools THEN {<<"no args">>}
        ELSE IF "fallback" \in DOMAIN toolConfigs[tool] /\ ~fallbackAttempted[e]
        THEN {<<"started">>, <<"throws">>} \cup
             {<<"ENOENT", o2>> : o2 \in
                 IF AttemptConfig(tool, "fallback").command
                        = toolConfigs[tool].command
                 THEN {"ENOENT"}  \* the same command fails the same way
                 ELSE {"started", "ENOENT", "throws"}}
        ELSE {<<"started">>, <<"throws">>, <<"ENOENT">>}

\* the process spawn returns for toolConfig.command
Running(cfg) ==
    [NoProcess EXCEPT !.state = "running", !.command = cfg.command,
                      !.timer = TRUE]

\* a process that failed to start: 'error' is emitted, then 'close', whose
\* handler matters only while the promise is pending
Failed(cfg, closeHandlerPending) ==
    [NoProcess EXCEPT !.state = "failed", !.command = cfg.command,
                      !.reading = closeHandlerPending]

SpawnError(command) == <<"spawn ", command, " ENOENT">>

\* the message of the error a launch ends with, <<>> when the tool runs
LaunchError(e, o) ==
    LET tool == ToolOf(e)
    IN  CASE o = <<"unknown">> -> <<"Unknown tool: ", tool>>
          [] o = <<"invalid">> -> <<Validated[tool][domain[e[1]]]>>
          [] o = <<"no args">> ->
                 <<"Cannot read properties of undefined (reading 'map')">>
          [] o = <<"throws">> -> <<"spawn threw">>
          [] o = <<"ENOENT">> -> SpawnError(toolConfigs[tool].command)
          [] o = <<"ENOENT", "ENOENT">> ->
                 SpawnError(AttemptConfig(tool, "fallback").command)
          [] o = <<"ENOENT", "throws">> -> <<"spawn threw">>
          [] OTHER -> <<>>

\* executeSingleTool from the increment of the counter to the await of
\* runTool: getToolConfiguration, validateInputs, createExecutionContext,
\* spawn, the registration of the handle, the 'error' handler with the
\* fallback attempt, and the catch and finally blocks when it throws
Launch(e, o) ==
    [ pc |-> IF LaunchError(e, o) = <<>> THEN "awaiting" ELSE "done",
      result |-> IF LaunchError(e, o) = <<>> THEN NoValue
                 ELSE FailedResult(e, LaunchError(e, o)),
      proc |->
          CASE o = <<"started">> ->
                 [primary |-> Running(AttemptConfig(ToolOf(e), "primary")),
                  fallback |-> NoProcess]
            [] o = <<"ENOENT">> ->
                 [primary |-> Failed(AttemptConfig(ToolOf(e), "primary"), FALSE),
                  fallback |-> NoProcess]
            [] o = <<"ENOENT", "started">> ->
                 [primary |-> Failed(AttemptConfig(ToolOf(e), "primary"), TRUE),
                  fallback |-> Running(AttemptConfig(ToolOf(e), "fallback"))]
            [] o = <<"ENOENT", "ENOENT">> ->
                 [primary |-> Failed(AttemptConfig(ToolOf(e), "primary"), FALSE),
                  fallback |->
                      Failed(AttemptConfig(ToolOf(e), "fallback"), FALSE)]
            [] o = <<"ENOENT", "throws">> ->
                 [primary |-> Failed(AttemptConfig(ToolOf(e), "primary"), FALSE),
                  fallback |-> NoProcess]
            [] OTHER -> [primary |-> NoProcess, fallback |-> NoProcess],
      handle |->
          CASE o = <<"started">> -> <<"primary">>
            [] o = <<"ENOENT", "started">> -> <<"fallback">>
            [] OTHER -> <<>>,
      spawns |-> IF o[1] \in {"started", "throws", "ENOENT"} THEN Len(o) ELSE 0,
      fallbackAttempted |-> Len(o) = 2 ]

\* history: the kind of error a launch ended with
LaunchCause(o) ==
    IF o[1] \in {"unknown", "invalid", "no args"} THEN o[1] ELSE "spawn"

\* the numbers of a set in ascending order
RECURSIVE Ascending(_)
Ascending(ns) ==
    IF ns = {} THEN <<>>
    ELSE LET least == CHOOSE n \in ns : \A m \in ns : n <= m
         IN  <<least>> \o Ascending(ns \ {least})

\* the launches of the tools of es, one outcome chosen for each
LaunchAll(es, choice) ==
    /\ pc' = [e \in AllExecs |->
                 IF e \in es THEN Launch(e, choice[e]).pc ELSE pc[e]]
    /\ toolResult' = [e \in AllExecs |->
                 IF e \in es /\ Launch(e, choice[e]).pc = "done"
                 THEN Launch(e, choice[e]).result ELSE toolResult[e]]
    /\ proc' = [e \in AllExecs |->
                 IF e \in es THEN Launch(e, choice[e]).proc ELSE proc[e]]
    /\ spawnCalls' = [e \in AllExecs |->
                 IF e \in es THEN Launch(e, choice[e]).spawns ELSE spawnCalls[e]]
    /\ fallbackAttempted' = [e \in AllExecs |->
                 IF e \in es THEN Launch(e, choice[e]).fallbackAttempted
                 ELSE fallbackAttempted[e]]
    /\ activeProcesses' =
           [e \in (DOMAIN activeProcesses)
                     \cup {x \in es : Launch(x, choice[x]).handle # <<>>} |->
               IF e \in es THEN Launch(e, choice[e]).handle[1]
               ELSE activeProcesses[e]]
    /\ startTime' = [e \in AllExecs |->
                 IF e \in es /\ Launch(e, choice[e]).handle # <<>>
                 THEN clock ELSE startTime[e]]
    /\ concurrentExecutions' = concurrentExecutions
           + Cardinality({e \in es : Launch(e, choice[e]).pc = "awaiting"})
    /\ cause' = [e \in AllExecs |->
                 IF e \in es /\ Launch(e, choice[e]).pc = "done"
                 THEN LaunchCause(choice[e]) ELSE cause[e]]
    /\ completed' = [c \in Callers |-> completed[c] \o Ascending(
                 {e[2] : e \in {x \in es : x[1] = c
                                      /\ Launch(x, choice[x]).pc = "done"}})]

\* The executeSingleTool calls of batch k: batch.map calls them one after
\* another and each runs the test of waitForExecutionSlot before any of them
\* increments the counter, so all of them pass or all of them wait.
BeginBatch(c, k) ==
    IF concurrentExecutions < MaxConcurrent
    THEN \E choice \in [BatchExecs(c, k) -> UNION {LaunchOutcomes(e) :
                                                   e \in BatchExecs(c, k)}] :
            /\ \A e \in BatchExecs(c, k) : choice[e] \in LaunchOutcomes(e)
            /\ LaunchAll(BatchExecs(c, k), choice)
            /\ UNCHANGED waited
    ELSE /\ pc' = [e \in AllExecs |->
                      IF e \in BatchExecs(c, k) THEN "waiting" ELSE pc[e]]
         /\ waited' = waited \cup BatchExecs(c, k)
         /\ UNCHANGED <<concurrentExecutions, activeProcesses, startTime,
                        toolResult,
                        proc, spawnCalls, fallbackAttempted, cause, completed>>

\* executeTools is called: a tools value without map makes
\* executeMultipleTools throw, an array starts the first batch
executeTools(c) ==
    /\ callPc[c] = "ready"
    /\ IF ~toolsIsArray[c]
       THEN /\ callPc' = [callPc EXCEPT ![c] = "returned"]
            /\ returned' = [returned EXCEPT ![c] =
                   StructuralFailure(c, "batch.map is not a function")]
            /\ UNCHANGED <<pc, concurrentExecutions, batchNo, activeProcesses,
                           startTime,
                           toolResult, proc, spawnCalls, fallbackAttempted,
                           cause, waited, completed>>
       ELSE /\ callPc' = [callPc EXCEPT ![c] = "running"]
            /\ batchNo' = [batchNo EXCEPT ![c] = 1]
            /\ BeginBatch(c, 1)
            /\ UNCHANGED returned
    /\ UNCHANGED <<processCleanupInterval, clock, pipeline, substitution, sweeps, tools,
                   toolsIsArray, domain,
                   results, runResult, file, killAllCalls>>

\* a timer of waitForExecutionSlot fires, the loop finds a free slot and
\* executeSingleTool goes on
waitForExecutionSlot(e) ==
    /\ pc[e] = "waiting"
    /\ concurrentExecutions < MaxConcurrent
    /\ \E o \in LaunchOutcomes(e) : LaunchAll({e}, [x \in {e} |-> o])
    /\ UNCHANGED <<processCleanupInterval, clock, pipeline, substitution, sweeps, tools,
                   toolsIsArray, domain,
                   callPc, batchNo, results, returned, runResult, file, waited,
                   killAllCalls>>

\* a catch block without the finally block: the slot is kept
ThrowKeepsSlot(e, message) ==
    /\ toolResult' = [toolResult EXCEPT ![e] = FailedResult(e, message)]
    /\ pc' = [pc EXCEPT ![e] = "done"]
    /\ concurrentExecutions' = concurrentExecutions
    /\ activeProcesses' = Remove(activeProcesses, e)
    /\ completed' = [completed EXCEPT ![e[1]] = Append(@, e[2])]

\* a finally block without activeProcesses.delete: the handle is kept
ThrowKeepsHandle(e, message) ==
    /\ toolResult' = [toolResult EXCEPT ![e] = FailedResult(e, message)]
    /\ pc' = [pc EXCEPT ![e] = "done"]
    /\ concurrentExecutions' = concurrentExecutions - 1
    /\ activeProcesses' = activeProcesses
    /\ completed' = [completed EXCEPT ![e[1]] = Append(@, e[2])]

\* the catch and finally blocks of executeSingleTool
Throw(e, message) ==
    /\ toolResult' = [toolResult EXCEPT ![e] = FailedResult(e, message)]
    /\ pc' = [pc EXCEPT ![e] = "done"]
    /\ concurrentExecutions' = concurrentExecutions - 1
    /\ activeProcesses' = Remove(activeProcesses, e)
    /\ completed' = [completed EXCEPT ![e[1]] = Append(@, e[2])]

\* a killProcess whose test of process.killed is inverted
killProcessInverted(p) ==
    IF ~p.killed THEN p
    ELSE IF p.state = "running"
    THEN [p EXCEPT !.killed = TRUE, !.signals = @ \cup {"SIGTERM"},
                   !.sent = @ + 1, !.killTimer = TRUE]
    ELSE [p EXCEPT !.killTimer = TRUE]

\* a killProcess without the test of process.killed
killProcessUnguarded(p) ==
    IF p.state = "running"
    THEN [p EXCEPT !.killed = TRUE, !.signals = @ \cup {"SIGTERM"},
                   !.sent = @ + 1, !.killTimer = TRUE]
    ELSE [p EXCEPT !.killTimer = TRUE]

\* killProcess: nothing for a process that was killed; otherwise SIGTERM,
\* which reaches the process and sets process.killed if it still runs, and
\* the timer of the kill grace period
killProcess(p) ==
    IF p.killed THEN p
    ELSE IF p.state = "running"
    THEN [p EXCEPT !.killed = TRUE, !.signals = @ \cup {"SIGTERM"},
                   !.sent = @ + 1, !.killTimer = TRUE]
    ELSE [p EXCEPT !.killTimer = TRUE]

\* the timer spawn sets for its timeout option (killSignal SIGTERM): it was
\* set before the timer of runTool for the same delay and fires before it
spawnTimeout(p) ==
    IF p.state = "running"
    THEN [p EXCEPT !.killed = TRUE, !.signals = @ \cup {"SIGTERM"},
                   !.sent = @ + 1]
    ELSE p

\* a timeout callback that runs the command once more
timeoutExpiresAndRetries(e, a) ==
    /\ proc[e][a].state = "running"
    /\ proc[e][a].timer
    /\ proc' = [proc EXCEPT ![e][a] =
           [killProcess(spawnTimeout(proc[e][a]))
               EXCEPT !.timer = FALSE, !.timedOut = TRUE]]
    /\ spawnCalls' = [spawnCalls EXCEPT ![e] = @ + 1]
    /\ UNCHANGED <<toolResult, pc, concurrentExecutions, activeProcesses,
                   cause, completed>>
    /\ UNCHANGED <<processCleanupInterval, clock, pipeline, substitution, sweeps, startTime, tools,
                   toolsIsArray, domain,
                   callPc, batchNo, results, returned, fallbackAttempted,
                   runResult, file, waited, killAllCalls>>

\* the timeout callback of an attempt: killProcess is called and the
\* attempt's promise rejected; a rejection of the promise executeSingleTool
\* awaits reaches its catch block
timeoutExpires(e, a) ==
    /\ proc[e][a].state = "running"
    /\ proc[e][a].timer
    /\ proc' = [proc EXCEPT ![e][a] =
           [killProcess(spawnTimeout(proc[e][a]))
               EXCEPT !.timer = FALSE, !.timedOut = TRUE]]
    /\ IF pc[e] = "awaiting"
       THEN /\ Throw(e, TimeoutMessage(TimeoutOf(AttemptConfig(ToolOf(e), a))))
            /\ cause' = [cause EXCEPT ![e] = "timeout"]
       ELSE UNCHANGED <<toolResult, pc, concurrentExecutions, activeProcesses,
                        cause, completed>>
    /\ UNCHANGED <<processCleanupInterval, clock, pipeline, substitution, sweeps, startTime, tools,
                   toolsIsArray, domain,
                   callPc, batchNo, results, returned, fallbackAttempted,
                   runResult, file, spawnCalls, waited, killAllCalls>>

\* an argument of the configuration names the output file
UsesOutputFile(cfg) ==
    \E i \in 1..Len(cfg.args) : \E j \in 1..Len(cfg.args[i]) :
        cfg.args[i][j] = "{outputFile}"

\* the exit codes a process is let end with: only subfinder is let fail
ExitCodes(tool) == IF tool = "subfinder" THEN {0, 1} ELSE {0}

\* the code 'close' carries after a spawn that failed with ENOENT
ExitCodeENOENT == 0 - 2

\* what a process may have printed on stdout when it ends: nothing when
\* the shell redirects it to the output file
Stdouts(tool, a) ==
    IF AttemptConfig(tool, a).command = "sh" THEN {<<>>} ELSE Outputs(tool)

\* the text of an output file that was written completely
FileText(tool) ==
    IF toolConfigs[tool].outputType = "domains"
    THEN DomainsOutput ELSE TextOutput

\* a process writes the output file its arguments name: the file is
\* created, or its text completed
processWrites(e, a) ==
    /\ proc[e][a].state = "running"
    /\ UsesOutputFile(AttemptConfig(ToolOf(e), a))
    /\ file[e] # "full"
    /\ \E f \in IF file[e] = "missing" THEN {"empty", "full"} ELSE {"full"} :
           file' = [file EXCEPT ![e] = f]
    /\ UNCHANGED <<concurrentExecutions, activeProcesses,
                   processCleanupInterval, clock, pipeline, substitution, sweeps, startTime, tools,
                   toolsIsArray, domain,
                   callPc, batchNo, results, returned, pc, fallbackAttempted,
                   proc, runResult, toolResult, spawnCalls, cause, waited,
                   completed, killAllCalls>>

\* fileOutput of the 'close' handler: what fs.readFile gives for a file
\* that exists, stdout when it throws
fileOutput(e, stdout) ==
    IF file[e] = "missing" THEN stdout
    ELSE IF file[e] = "empty" THEN <<>>
    ELSE FileText(ToolOf(e))

\* a resolve that settles a promise that was settled before
ResolveSettled(e, codes, stdouts) ==
    /\ \E code \in codes, stdout \in stdouts :
         runResult' = [runResult EXCEPT ![e] =
             [code |-> code, stdout |-> stdout, file |-> file[e],
              output |-> fileOutput(e, stdout)]]
    /\ pc' = [pc EXCEPT ![e] = "processing"]
    /\ cause' = [cause EXCEPT ![e] = "close"]

\* the 'close' handler of an attempt, once it has read the output file:
\* the attempt's promise is resolved, which takes executeSingleTool on only
\* if the promise it awaits was still pending
Resolve(e, codes, stdouts) ==
    IF pc[e] = "awaiting"
    THEN /\ \E code \in codes, stdout \in stdouts :
              runResult' = [runResult EXCEPT ![e] =
                  [code |-> code, stdout |-> stdout, file |-> file[e],
                   output |-> fileOutput(e, stdout)]]
         /\ pc' = [pc EXCEPT ![e] = "processing"]
         /\ cause' = [cause EXCEPT ![e] = "close"]
    ELSE UNCHANGED <<runResult, pc, cause>>

\* a running process ends: 'close' clears the timeout, reads the output
\* file and resolves (nothing else can settle the attempt's promise between
\* the event and the end of the read)
processCloses(e, a) ==
    /\ proc[e][a].state = "running"
    /\ proc' = [proc EXCEPT ![e][a].state = "exited", ![e][a].timer = FALSE]
    /\ Resolve(e, ExitCodes(ToolOf(e)), Stdouts(ToolOf(e), a))
    /\ UNCHANGED <<concurrentExecutions, activeProcesses,
                   processCleanupInterval, clock, pipeline, substitution, sweeps, startTime, tools,
                   toolsIsArray, domain,
                   callPc, batchNo, results, returned, fallbackAttempted,
                   toolResult, spawnCalls, waited, completed, killAllCalls,
                   file>>

\* the 'close' handler of a primary process that did not start ends its
\* read while the fallback attempt is under way
closeHandlerResolves(e, a) ==
    /\ proc[e][a].reading
    /\ proc' = [proc EXCEPT ![e][a].reading = FALSE]
    /\ Resolve(e, {ExitCodeENOENT}, {<<>>})
    /\ UNCHANGED <<concurrentExecutions, activeProcesses,
                   processCleanupInterval, clock, pipeline, substitution, sweeps, startTime, tools,
                   toolsIsArray, domain,
                   callPc, batchNo, results, returned, fallbackAttempted,
                   toolResult, spawnCalls, waited, completed, killAllCalls,
                   file>>

\* an executeSingleTool whose finally block keeps the slot after a success
executeSingleToolKeepsSlot(e) ==
    /\ pc[e] = "processing"
    /\ toolResult' = [toolResult EXCEPT ![e] =
           SucceededResult(e, processResults(ToolOf(e), runResult[e].output,
                                             domain[e[1]]))]
    /\ file' = [file EXCEPT ![e] = "missing"]
    /\ pc' = [pc EXCEPT ![e] = "done"]
    /\ concurrentExecutions' = concurrentExecutions
    /\ activeProcesses' = Remove(activeProcesses, e)
    /\ completed' = [completed EXCEPT ![e[1]] = Append(@, e[2])]
    /\ UNCHANGED <<processCleanupInterval, clock, pipeline, substitution, sweeps, startTime, tools,
                   toolsIsArray, domain,
                   callPc, batchNo, results, returned, fallbackAttempted,
                   proc, runResult, spawnCalls, cause, waited, killAllCalls>>

\* executeSingleTool after runTool resolved: processResults with the unlink
\* of the output file, the return value and the finally block
executeSingleTool(e) ==
    /\ pc[e] = "processing"
    /\ toolResult' = [toolResult EXCEPT ![e] =
           SucceededResult(e, processResults(ToolOf(e), runResult[e].output,
                                             domain[e[1]]))]
    /\ file' = [file EXCEPT ![e] = "missing"]
    /\ pc' = [pc EXCEPT ![e] = "done"]
    /\ concurrentExecutions' = concurrentExecutions - 1
    /\ activeProcesses' = Remove(activeProcesses, e)
    /\ completed' = [completed EXCEPT ![e[1]] = Append(@, e[2])]
    /\ UNCHANGED <<processCleanupInterval, clock, pipeline, substitution, sweeps, startTime, tools,
                   toolsIsArray, domain,
                   callPc, batchNo, results, returned, fallbackAttempted,
                   proc, runResult, spawnCalls, cause, waited, killAllCalls>>

\* an executeMultipleTools that goes on when one tool of the batch is done
executeMultipleToolsAfterAny(c) ==
    /\ callPc[c] = "running"
    /\ \E e \in BatchExecs(c, batchNo[c]) : pc[e] = "done"
    /\ results' = [results EXCEPT ![c] = @ \o BatchResults(c, batchNo[c])]
    /\ IF batchNo[c] < NumBatches(tools[c])
       THEN /\ batchNo' = [batchNo EXCEPT ![c] = @ + 1]
            /\ BeginBatch(c, batchNo[c] + 1)
            /\ UNCHANGED <<callPc, returned>>
       ELSE /\ callPc' = [callPc EXCEPT ![c] = "returned"]
            /\ returned' = [returned EXCEPT ![c] =
                   ExecutionResult(c, results'[c])]
            /\ UNCHANGED <<pc, concurrentExecutions, batchNo, activeProcesses,
                           startTime,
                           toolResult, proc, spawnCalls, fallbackAttempted,
                           cause, waited, completed>>
    /\ UNCHANGED <<processCleanupInterval, clock, pipeline, substitution, sweeps, tools,
                   toolsIsArray, domain,
                   runResult, file, killAllCalls>>

\* executeMultipleTools when the batch it awaits has settled: the results
\* are pushed, then the next batch starts or executeTools returns
executeMultipleTools(c) ==
    /\ callPc[c] = "running"
    /\ \A e \in BatchExecs(c, batchNo[c]) : pc[e] = "done"
    /\ results' = [results EXCEPT ![c] = @ \o BatchResults(c, batchNo[c])]
    /\ IF batchNo[c] < NumBatches(tools[c])
       THEN /\ batchNo' = [batchNo EXCEPT ![c] = @ + 1]
            /\ BeginBatch(c, batchNo[c] + 1)
            /\ UNCHANGED <<callPc, returned>>
       ELSE /\ callPc' = [callPc EXCEPT ![c] = "returned"]
            /\ returned' = [returned EXCEPT ![c] =
                   ExecutionResult(c, results'[c])]
            /\ UNCHANGED <<pc, concurrentExecutions, batchNo, activeProcesses,
                           startTime,
                           toolResult, proc, spawnCalls, fallbackAttempted,
                           cause, waited, completed>>
    /\ UNCHANGED <<processCleanupInterval, clock, pipeline, substitution, sweeps, tools,
                   toolsIsArray, domain,
                   runResult, file, killAllCalls>>

\* the timer of the kill grace period fires: SIGKILL unless process.killed
killTimeoutExpires(e, a) ==
    /\ proc[e][a].killTimer
    /\ proc' = [proc EXCEPT ![e][a] =
           IF ~proc[e][a].killed /\ proc[e][a].state = "running"
           THEN [@ EXCEPT !.killTimer = FALSE, !.killed = TRUE,
                          !.signals = @ \cup {"SIGKILL"}, !.sent = @ + 1]
           ELSE [@ EXCEPT !.killTimer = FALSE]]
    /\ UNCHANGED <<concurrentExecutions, activeProcesses,
                   processCleanupInterval, clock, pipeline, substitution, sweeps, startTime, tools,
                   toolsIsArray, domain,
                   callPc, batchNo, results, returned, pc, fallbackAttempted,
                   runResult, file, toolResult, spawnCalls, cause, waited,
                   completed, killAllCalls>>

\* a killAllProcesses that leaves the handles in activeProcesses
killAllProcessesKeepsEntries ==
    /\ killAllCalls < MaxKillAll
    /\ proc' = [e \in AllExecs |-> [a \in Attempts |->
                   IF e \in DOMAIN activeProcesses /\ activeProcesses[e] = a
                   THEN killProcess(proc[e][a]) ELSE proc[e][a]]]
    /\ activeProcesses' = activeProcesses
    /\ processCleanupInterval' = FALSE
    /\ killAllCalls' = killAllCalls + 1
    /\ UNCHANGED <<concurrentExecutions, tools, toolsIsArray, domain, callPc,
                   batchNo, results, returned, pc, fallbackAttempted,
                   runResult, file, toolResult, spawnCalls, cause, waited,
                   completed, clock, pipeline, substitution, sweeps, startTime>>

\* killAllProcesses: killProcess for every handle of activeProcesses, which
\* is then cleared, and the sweep timer stopped
killAllProcesses ==
    /\ killAllCalls < MaxKillAll
    /\ proc' = [e \in AllExecs |-> [a \in Attempts |->
                   IF e \in DOMAIN activeProcesses /\ activeProcesses[e] = a
                   THEN killProcess(proc[e][a]) ELSE proc[e][a]]]
    /\ activeProcesses' = [e \in {} |-> "primary"]
    /\ processCleanupInterval' = FALSE
    /\ killAllCalls' = killAllCalls + 1
    /\ UNCHANGED <<concurrentExecutions, tools, toolsIsArray, domain, callPc,
                   batchNo, results, returned, pc, fallbackAttempted,
                   runResult, file, toolResult, spawnCalls, cause, waited,
                   completed, clock, pipeline, substitution, sweeps, startTime>>

\* normal operation
Next ==
    \/ \E c \in Callers : executeTools(c)
    \/ \E e \in AllExecs : waitForExecutionSlot(e)
    \/ \E e \in AllExecs, a \in Attempts : timeoutExpires(e, a)
    \/ \E e \in AllExecs, a \in Attempts : processCloses(e, a)
    \/ \E e \in AllExecs, a \in Attempts : closeHandlerResolves(e, a)
    \/ \E e \in AllExecs : executeSingleTool(e)
    \/ \E c \in Callers : executeMultipleTools(c)

Spec == Init /\ [][Next]_vars

\* overlapping calls of which one finds no free slot: the first asks for as
\* many tools as there are slots, the second for one more
InitOverlap ==
    /\ InitWith(ListsOver(CoreNames), Callers)
    /\ pipeline = NoPipeline
    /\ substitution = NoSubstitution
    /\ tools[1] \in [1..MaxConcurrent -> {"dig"}]
    /\ tools[2] \in [1..1 -> CoreNames]
    /\ \A c \in Callers : domain[c] = GoodDomain

\* calls with domains validateInputs is there to reject: a call for a tool
\* with a fallback and one without, and a second call for one tool, known
\* or not, with any domain
InitValidation ==
    /\ InitFor(ListsOver(CoreNames), Callers, AllDomains)
    /\ pipeline = NoPipeline
    /\ substitution = NoSubstitution
    /\ tools[1] = <<"nslookup", "dig">>
    /\ domain[1] = GoodDomain
    /\ tools[2] \in {<<"dig">>, <<"nslookup">>, <<"nosuch">>}

SpecValidation == InitValidation /\ [][Next]_vars

\* operation with tools that write output files: two calls overlap, the
\* second for a registered tool

InitFiles ==
    /\ InitWith(ListsOver(RegisteredTools), Callers)
    /\ pipeline = NoPipeline
    /\ substitution = NoSubstitution
    /\ tools[1] \in [1..MaxConcurrent -> {"dig"}]
    /\ tools[2] \in [1..1 -> RegisteredTools]
    /\ \A c \in Callers : domain[c] = GoodDomain

NextFiles ==
    \/ Next
    \/ \E e \in AllExecs, a \in Attempts : processWrites(e, a)

SpecFiles == InitFiles /\ [][NextFiles]_vars

\* the buffer cleanupStaleProcesses adds to the timeout
StaleBuffer == 60000

\* staleThreshold of cleanupStaleProcesses
staleThreshold == DefaultTimeout + StaleBuffer

\* the handles a sweep at this moment finds stale
Stale == {e \in DOMAIN activeProcesses : clock - startTime[e] > staleThreshold}

\* the callback of the sweep interval: cleanupStaleProcesses, with
\* killExecution (killProcess, then the handle is deleted) for every handle
\* older than staleThreshold
cleanupStaleProcesses ==
    /\ processCleanupInterval
    /\ sweeps < MaxSweeps
    /\ sweeps' = sweeps + 1
    /\ proc' = [e \in AllExecs |-> [a \in Attempts |->
                   IF e \in Stale /\ activeProcesses[e] = a
                   THEN killProcess(proc[e][a]) ELSE proc[e][a]]]
    /\ activeProcesses' =
           [e \in (DOMAIN activeProcesses) \ Stale |-> activeProcesses[e]]
    /\ UNCHANGED <<concurrentExecutions, processCleanupInterval, clock, pipeline, substitution,
                   startTime, tools, toolsIsArray, domain, callPc, batchNo,
                   results, returned, pc, fallbackAttempted, runResult, file,
                   toolResult, spawnCalls, cause, waited, completed,
                   killAllCalls>>

\* time passes: Date.now() grows
Tick ==
    /\ clock < MaxTicks * TickMs
    /\ clock' = clock + TickMs
    /\ UNCHANGED <<concurrentExecutions, activeProcesses,
                   processCleanupInterval, startTime, sweeps, pipeline, substitution,
                   tools, toolsIsArray, domain, callPc, batchNo, results, returned,
                   pc, fallbackAttempted, proc, runResult, file, toolResult,
                   spawnCalls, cause, waited, completed, killAllCalls>>

\* operation with the sweep while time passes: Date.now() is the wall
\* clock, which the timers do not follow, so when a timer fires is left
\* open as everywhere else: a call for a tool with a fallback and
\* one without, and a second call, which finds no free slot, for an unknown
\* tool or with a domain that does not validate

InitSweep ==
    /\ Init
    /\ tools[1] = <<"nslookup", "dig">>
    /\ domain[1] = GoodDomain
    /\ tools[2] \in {<<"nosuch">>, <<"dig">>}
    /\ tools[2] = <<"dig">> => domain[2] = BadDomain

NextSweep ==
    \/ Next
    \/ Tick
    \/ cleanupStaleProcesses

SpecSweep == InitSweep /\ [][NextSweep]_vars

\* operation with a shutdown: killAllProcesses at any moment, while two
\* calls overlap, the second for a tool that has a fallback

InitShutdown ==
    /\ InitOverlap
    /\ tools[2] = <<"nslookup">>

NextShutdown ==
    \/ Next
    \/ killAllProcesses
    \/ \E e \in AllExecs, a \in Attempts : killTimeoutExpires(e, a)

SpecShutdown == InitShutdown /\ [][NextShutdown]_vars

(***************************************************************************)
(* Substitution of the placeholders of a command template                  *)
(* (ToolExecutor.processCommandArgs).  An argument is the sequence of its   *)
(* pieces; a placeholder is a piece of its own.                            *)
(***************************************************************************)
\* `{${key}}`
Placeholder(key) == "{" \o key \o "}"

\* the keys of the replacements object of runTool, in the order of
\* Object.entries
ReplacementKeys == <<"domain", "outputFile", "executionId">>

processedArgFirstOnly(arg, key, value) ==
    LET hits == {i \in 1..Len(arg) : arg[i] = Placeholder(key)}
    IN  [i \in 1..Len(arg) |->
            IF hits # {} /\ i = (CHOOSE h \in hits : \A g \in hits : h <= g)
            THEN value ELSE arg[i]]

\* processedArg.replace(new RegExp(`{${key}}`, 'g'), value)
processedArg(arg, key, value) ==
    [i \in 1..Len(arg) |-> IF arg[i] = Placeholder(key) THEN value ELSE arg[i]]

\* the for loop of processCommandArgs over the keys from position k on
RECURSIVE ReplaceFrom(_, _, _)
ReplaceFrom(arg, replacements, k) ==
    IF k > Len(ReplacementKeys) THEN arg
    ELSE ReplaceFrom(processedArg(arg, ReplacementKeys[k],
                                  replacements[ReplacementKeys[k]]),
                     replacements, k + 1)

processCommandArgs(args, replacements) ==
    [i \in 1..Len(args) |-> ReplaceFrom(args[i], replacements, 1)]

\* the templates of the registry, and templates with a placeholder twice,
\* with {executionId} and with placeholders processCommandArgs has no value
\* for
Templates ==
    {toolConfigs[tool].args : tool \in RegisteredTools}
      \cup {AttemptConfig(tool, "fallback").args :
               tool \in {t \in RegisteredTools : "fallback" \in DOMAIN toolConfigs[t]}}
      \cup { << <<"{domain}", ".", "{domain}">>, <<"-o">>, <<"{outputFile}">> >>,
             << <<"--id=", "{executionId}">>, <<"{domain}">> >>,
             << <<"-w">>, <<"{wordlist}">>, <<"{domain}">> >>,
             << <<"{target}", ":", "{port}">> >> }

\* the pieces that are placeholders
Placeholders ==
    {Placeholder(key) : key \in {"domain", "outputFile", "executionId",
                                 "wordlist", "target", "port"}}

KnownPlaceholders ==
    {Placeholder(ReplacementKeys[k]) : k \in 1..Len(ReplacementKeys)}

\* the replacements objects runTool builds from its context
Replacements ==
    [domain : {"a.io", "example.com"},
     outputFile : {"/tmp/adiyogi/dig_a.io_1_exec_1.txt",
                   "/tmp/adiyogi/subfinder_example.com_2_exec_2.txt"},
     executionId : {"exec_1", "exec_2", "exec_3"}]

(***************************************************************************)
(* The result pipeline as a caller uses it: one call of processResults of  *)
(* the processor and one of processResults of the executor on the same     *)
(* raw output, in either order.                                            *)
(***************************************************************************)
executorVars ==
    << concurrentExecutions, activeProcesses, processCleanupInterval, tools,
       toolsIsArray, domain, callPc, batchNo, results, returned, pc,
       fallbackAttempted, proc, runResult, file, clock, startTime, sweeps,
       toolResult, spawnCalls, cause, waited, completed, killAllCalls >>

\* no call of executeTools, and one request to the pipeline
InitPipeline ==
    /\ InitWith(ListsOver(CoreNames), {})
    /\ substitution = NoSubstitution
    /\ pipeline \in {[request |-> r, processed |-> NoValue, executed |-> NoValue] :
                        r \in PipelineRequests}

\* await resultProcessor.processResults(tool, rawOutput, domain, options)
ProcessorProcesses ==
    /\ pipeline.request # NoValue
    /\ pipeline.processed = NoValue
    /\ pipeline' = [pipeline EXCEPT !.processed =
           ResultProcessor_processResults(pipeline.request.tool,
               pipeline.request.rawOutput, pipeline.request.domain,
               pipeline.request.options)]
    /\ UNCHANGED <<executorVars, substitution>>

\* await toolExecutor.processResults(tool, {output}, {domain}), for the
\* domain of an execution context, which is a string
ExecutorProcesses ==
    /\ pipeline.request # NoValue
    /\ pipeline.executed = NoValue
    /\ pipeline.request.domain.type = "string"
    /\ pipeline' = [pipeline EXCEPT !.executed =
           ToolExecutor_processResults(pipeline.request.tool,
               [output |-> pipeline.request.rawOutput],
               [domain |-> pipeline.request.domain.value])]
    /\ UNCHANGED <<executorVars, substitution>>

NextPipeline == ProcessorProcesses \/ ExecutorProcesses

SpecPipeline == InitPipeline /\ [][NextPipeline]_vars

\* the request of the state and its parts
Request == pipeline.request

Options == Destructured(Request.options)

Processed == pipeline.processed

Executed == pipeline.executed

(***************************************************************************)
(* processCommandArgs as runTool calls it, on one template.                *)
(***************************************************************************)
InitSubstitution ==
    /\ InitWith(ListsOver(CoreNames), {})
    /\ pipeline = NoPipeline
    /\ substitution \in
           {[args |-> t, replacements |-> r, processedArgs |-> <<>>] :
               t \in Templates, r \in Replacements}

\* const processedArgs = this.processCommandArgs(toolConfig.args, {...})
Substitutes ==
    /\ substitution.args # <<>>
    /\ substitution.processedArgs = <<>>
    /\ substitution' = [substitution EXCEPT !.processedArgs =
           processCommandArgs(substitution.args, substitution.replacements)]
    /\ UNCHANGED <<executorVars, pipeline>>

NextSubstitution == Substitutes

SpecSubstitution == InitSubstitution /\ [][NextSubstitution]_vars

(***************************************************************************)
(* Properties.                                                             *)
(***************************************************************************)
\* the calls that were made with a list of tools and have returned
ReturnedCalls == {c \in Callers : callPc[c] = "returned" /\ toolsIsArray[c]}

\* C1: at most maxConcurrent tool executions have passed
\* waitForExecutionSlot and not yet finished, so at most maxConcurrent
\* external processes run at the same time
C1_AtMostMaxConcurrent ==
    /\ Cardinality({e \in AllExecs : pc[e] \in {"awaiting", "processing"}})
           <= MaxConcurrent
    /\ concurrentExecutions <= MaxConcurrent

\* C2: a call of executeTools that returns carries one ToolResult for each
\* requested tool, each with its tool name, in the order of the request
C2_OneResultPerToolInOrder ==
    \A c \in ReturnedCalls :
        /\ Len(returned[c].results) = Len(tools[c])
        /\ \A i \in 1..Len(tools[c]) :
               /\ "tool" \in DOMAIN returned[c].results[i]
               /\ returned[c].results[i].tool = tools[c][i]
               /\ returned[c].results[i] = toolResult[<<c, i>>]

\* C2 at work: a call of two or more tools returned although a later tool
\* of the request had finished before an earlier one
C2_Witness ==
    \E c \in ReturnedCalls :
        \E i, j \in 1..Len(completed[c]) :
            i < j /\ completed[c][i] > completed[c][j]

\* what makes an invocation fail: an unknown tool, an input that does not
\* validate, an error of spawn, or the timeout
FailureCauses == {"unknown", "invalid", "no args", "spawn", "timeout"}

\* C3: a tool that fails is reported with success FALSE in its own
\* ToolResult; the other tools of the call reach their own outcome, which
\* is reported unchanged, and the call reports success when one of them
\* succeeded
C3_FailureStaysWithItsTool ==
    \A c \in ReturnedCalls :
        /\ Len(returned[c].results) = Len(tools[c])
        /\ \A i \in 1..Len(tools[c]) :
               /\ pc[<<c, i>>] = "done"
               /\ returned[c].results[i] = toolResult[<<c, i>>]
               /\ returned[c].results[i].success
                      = (cause[<<c, i>>] \notin FailureCauses)
               /\ cause[<<c, i>>] # "none"
        /\ (\E i \in 1..Len(tools[c]) : toolResult[<<c, i>>].success)
               => returned[c].success

\* C3 at work: of two tools of one batch the first timed out and the
\* second succeeded
C3_Witness ==
    \E c \in ReturnedCalls :
        /\ Len(tools[c]) >= 2
        /\ BatchSize(tools[c]) >= 2
        /\ cause[<<c, 1>>] = "timeout"
        /\ ~returned[c].results[1].success
        /\ returned[c].results[2].success
        /\ returned[c].success

\* C4: a tool whose process is still running when its timeout expires gets a
\* ToolResult with success FALSE, the timeout error and empty results, and
\* no handle of the execution stays in activeProcesses
C4_TimeoutFailsTheTool ==
    \A e \in AllExecs : \A a \in Attempts :
        (proc[e][a].timedOut /\ pc[e] = "done") =>
            /\ ~toolResult[e].success
            /\ toolResult[e].error
                   = TimeoutMessage(TimeoutOf(AttemptConfig(ToolOf(e), a)))
            /\ toolResult[e].results = <<>>
            /\ e \notin DOMAIN activeProcesses

\* what goes on by itself: the timers that are set fire and the code that
\* has nothing to wait for runs; when a process ends is left open, and so is
\* when a caller calls
Scheduled ==
    \/ \E e \in AllExecs : waitForExecutionSlot(e)
    \/ \E e \in AllExecs, a \in Attempts : timeoutExpires(e, a)
    \/ \E e \in AllExecs, a \in Attempts : closeHandlerResolves(e, a)
    \/ \E e \in AllExecs : executeSingleTool(e)
    \/ \E c \in Callers : executeMultipleTools(c)

FairSpec == InitOverlap /\ [][Next]_vars /\ WF_vars(Scheduled)

\* C5: every dispatched tool run reaches a ToolResult and every call of
\* executeTools returns, when timers fire
C5_EveryCallReturns ==
    /\ \A c \in Callers : (callPc[c] = "running") ~> (callPc[c] = "returned")
    /\ \A e \in AllExecs :
           (pc[e] \in {"waiting", "awaiting", "processing"}) ~> (pc[e] = "done")

\* C5 at work: a call returned one of whose tools had found no free slot
\* and had to wait, while a process was ended by its timeout
C5_Witness ==
    \E c \in ReturnedCalls :
        /\ \E e \in ExecsOf(c) : e \in waited /\ pc[e] = "done"
        /\ \E e \in AllExecs : cause[e] = "timeout"

\* C6: a name that is not in the registry gets a failed ToolResult with the
\* name and an error, no process is spawned for it, and the other names of
\* the request are still run and reported
C6_UnknownToolFailsAlone ==
    \A c \in ReturnedCalls :
        /\ Len(returned[c].results) = Len(tools[c])
        /\ \A i \in 1..Len(tools[c]) :
               LET r == returned[c].results[i]
               IN  IF tools[c][i] \notin RegisteredTools
                   THEN /\ ~r.success
                        /\ "tool" \in DOMAIN r /\ r.tool = tools[c][i]
                        /\ "error" \in DOMAIN r /\ r.error # <<>>
                        /\ spawnCalls[<<c, i>>] = 0
                        /\ \A a \in Attempts : proc[<<c, i>>][a] = NoProcess
                   ELSE /\ "tool" \in DOMAIN r /\ r.tool = tools[c][i]
                        /\ cause[<<c, i>>] \notin {"none", "unknown", "no args"}
                        /\ domain[c] = GoodDomain => spawnCalls[<<c, i>>] >= 1

\* C6 at work: the first name of a request is unknown and a later name of
\* the same batch ran and succeeded
C6_Witness ==
    \E c \in ReturnedCalls :
        /\ Len(tools[c]) >= 2
        /\ BatchSize(tools[c]) >= 2
        /\ tools[c][1] \notin RegisteredTools
        /\ ~returned[c].results[1].success
        /\ returned[c].results[2].success
        /\ spawnCalls[<<c, 2>>] >= 1

\* C7: a call all of whose tools fail still returns success TRUE with one
\* failed ToolResult for each tool; success FALSE is returned only when the
\* call itself fails, before any tool ran
C7_ToolOutcomesNeverFailTheCall ==
    \A c \in Callers : callPc[c] = "returned" =>
        /\ toolsIsArray[c] =>
               /\ returned[c].success
               /\ Len(returned[c].results) = Len(tools[c])
               /\ \A i \in 1..Len(tools[c]) :
                      returned[c].results[i].success
                          = toolResult[<<c, i>>].success
        /\ ~returned[c].success =>
               /\ ~toolsIsArray[c]
               /\ \A e \in AllExecs : e[1] = c => pc[e] = "pending"

\* C7 at work: a call of two or more tools returned success TRUE although
\* every tool failed
C7_Witness ==
    \E c \in ReturnedCalls :
        /\ Len(tools[c]) >= 2
        /\ returned[c].success
        /\ \A i \in 1..Len(tools[c]) : ~returned[c].results[i].success

\* C8 as stated: the success flag of a returned ExecutionResult is TRUE
\* exactly when one of its ToolResults has success TRUE
C8_SuccessIffAToolSucceeded ==
    \A c \in Callers : callPc[c] = "returned" =>
        (returned[c].success
            <=> \E i \in 1..Len(returned[c].results) :
                    returned[c].results[i].success)

\* C8 amended: the success flag is TRUE whenever one of the ToolResults has
\* success TRUE, and it is FALSE only for a call that failed as a whole,
\* whose results are empty
C8_SuccessIfAToolSucceeded ==
    \A c \in Callers : callPc[c] = "returned" =>
        /\ (\E i \in 1..Len(returned[c].results) :
                returned[c].results[i].success) => returned[c].success
        /\ ~returned[c].success => returned[c].results = <<>>

\* C8 at work: a call returned success TRUE with one tool that succeeded
\* and one that failed
C8_Witness ==
    \E c \in ReturnedCalls :
        /\ returned[c].success
        /\ \E i \in 1..Len(tools[c]) : returned[c].results[i].success
        /\ \E i \in 1..Len(tools[c]) : ~returned[c].results[i].success

\* C9: every ToolResult of a returned ExecutionResult has a count equal to
\* the length of its results, a failed one count 0 and no results
C9_CountIsLengthOfResults ==
    \A c \in ReturnedCalls : \A i \in 1..Len(returned[c].results) :
        LET r == returned[c].results[i]
        IN  /\ "count" \in DOMAIN r
            /\ r.count = Len(r.results)
            /\ ~r.success => r.results = <<>>

\* the processes that run with a handle in activeProcesses
TrackedRunning ==
    {e \in DOMAIN activeProcesses : proc[e][activeProcesses[e]].state = "running"}

\* C10: killAllProcesses signals every tracked process, leaves
\* activeProcesses empty, and getStats then reports no active process
C10_KillAllProcesses ==
    [][killAllCalls' = killAllCalls + 1 =>
          /\ \A e \in TrackedRunning :
                 "SIGTERM" \in proc'[e][activeProcesses[e]].signals
          /\ DOMAIN activeProcesses' = {}
          /\ getStats'.activeProcesses = 0]_vars

\* C10 at work: killAllProcesses has signalled two or more processes that
\* no timeout had ended, and activeProcesses is empty
C10_Witness ==
    /\ killAllCalls = 1
    /\ DOMAIN activeProcesses = {}
    /\ getStats.activeProcesses = 0
    /\ Cardinality({e \in AllExecs : \E a \in Attempts :
                        /\ proc[e][a].killed
                        /\ ~proc[e][a].timedOut
                        /\ "SIGTERM" \in proc[e][a].signals}) >= 2

\* C11: once killAllProcesses has been invoked, activeProcesses stays empty:
\* no later batch, fallback or waiting caller registers a process
C11_RegistryStaysEmptyAfterKillAll ==
    killAllCalls >= 1 => DOMAIN activeProcesses = {}

\* C12: a second killAllProcesses leaves activeProcesses empty and the sweep
\* timer stopped, signals no process that was signalled before, and with
\* nothing registered since the first one it changes no process at all
C12_KillAllProcessesIsIdempotent ==
    [][killAllCalls >= 1 /\ killAllCalls' = killAllCalls + 1 =>
          /\ DOMAIN activeProcesses' = {}
          /\ ~processCleanupInterval'
          /\ \A e \in AllExecs : \A a \in Attempts :
                 proc[e][a].sent > 0 => proc'[e][a] = proc[e][a]
          /\ DOMAIN activeProcesses = {} =>
                 /\ proc' = proc
                 /\ processCleanupInterval' = processCleanupInterval
                 /\ activeProcesses' = activeProcesses]_vars

\* C12 at work: killAllProcesses was invoked twice, processes of the first
\* invocation still run, and each of them received one signal
C12_Witness ==
    /\ killAllCalls = 2
    /\ DOMAIN activeProcesses = {}
    /\ ~processCleanupInterval
    /\ \E e \in AllExecs : \E a \in Attempts :
           /\ proc[e][a].state = "running"
           /\ proc[e][a].killed
           /\ ~proc[e][a].timedOut
           /\ proc[e][a].sent = 1

\* C13: a process that timed out and has not exited was sent SIGKILL, or
\* the timer of the kill grace period is still to fire for it
C13_TimeoutEndsInSIGKILL ==
    \A e \in AllExecs : \A a \in Attempts :
        proc[e][a].timedOut /\ proc[e][a].state = "running" =>
            /\ "SIGTERM" \in proc[e][a].signals
            /\ proc[e][a].killTimer \/ "SIGKILL" \in proc[e][a].signals

\* the tool of e is configured with a fallback
HasFallback(e) ==
    /\ ToolOf(e) \in RegisteredTools
    /\ "fallback" \in DOMAIN toolConfigs[ToolOf(e)]

\* the value the fallback gives a key, the primary's where it gives none
FallbackValue(e, key) ==
    IF key \in DOMAIN toolConfigs[ToolOf(e)].fallback
    THEN toolConfigs[ToolOf(e)].fallback[key]
    ELSE toolConfigs[ToolOf(e)][key]

\* C14: once the ToolResult of a tool has been produced, its output file
\* does not exist
C14_OutputFileIsDeleted ==
    \A e \in AllExecs : pc[e] = "done" => file[e] = "missing"

C16_NonzeroExitFailsTheTool ==
    \A e \in AllExecs :
        pc[e] = "done" /\ cause[e] = "close" /\ runResult[e].code > 0 =>
            ~toolResult[e].success

\* the executions of which an attempt has timed out
TimedOut == {e \in AllExecs : \E a \in Attempts : proc[e][a].timedOut}

C18_OutputIsFileOrStdout ==
    \A e \in AllExecs :
        runResult[e] # NoValue =>
            runResult[e].output =
                IF runResult[e].file = "full" THEN FileText(ToolOf(e))
                ELSE runResult[e].stdout

\* the tools that have started: they ask for a slot, run, or are done
Started(c) == {e \in ExecsOf(c) : pc[e] # "pending"}

\* C19: when a tool of a batch has started, every tool of the batches
\* before has produced its ToolResult
C19_BatchesRunOneAfterAnother ==
    \A c \in Callers :
        \A k \in 2..NumBatches(tools[c]) :
            (BatchExecs(c, k) \cap Started(c) # {}
                \/ \E e \in BatchExecs(c, k) : spawnCalls[e] > 0) =>
                \A j \in 1..(k - 1) : \A e \in BatchExecs(c, j) :
                    /\ pc[e] = "done"
                    /\ toolResult[e] # NoValue

\* C19 at work: the third tool of a call runs in a second batch after the
\* two tools of the first batch ran together and are done
C19_Witness ==
    \E c \in Callers :
        /\ Len(tools[c]) = 3
        /\ NumBatches(tools[c]) = 2
        /\ pc[<<c, 3>>] = "awaiting"
        /\ proc[<<c, 3>>]["primary"].state = "running"
        /\ \A i \in 1..2 : /\ pc[<<c, i>>] = "done"
                             /\ proc[<<c, i>>]["primary"].state = "exited"
                             /\ toolResult[<<c, i>>].success

RECURSIVE Flatten(_)
Flatten(bs) == IF bs = <<>> THEN <<>> ELSE Head(bs) \o Flatten(Tail(bs))

\* the limits of concurrency the batches are formed for
Limits == 1..MaxLimit

\* the batches of ts for the limit m are not empty, hold m tools at most
\* and give ts when joined in order
IsPartition(ts, m) ==
    /\ \A k \in 1..Len(Batches(ts, m)) :
           /\ Len(Batches(ts, m)[k]) >= 1
           /\ Len(Batches(ts, m)[k]) <= m
    /\ Flatten(Batches(ts, m)) = ts

\* C20: for the list of every call and every limit, createConcurrentBatches
\* gives non-empty batches of at most that many tools whose concatenation
\* is the list; the batches executeMultipleTools runs are these
C20_BatchesPartitionTheTools ==
    \A c \in Callers :
        /\ \A m \in Limits : IsPartition(tools[c], m)
        /\ NumBatches(tools[c]) = Len(createConcurrentBatches(tools[c]))
        /\ \A k \in 1..NumBatches(tools[c]) :
               createConcurrentBatches(tools[c])[k] =
                   [j \in 1..Cardinality(BatchRange(tools[c], k)) |->
                       tools[c][(k - 1) * BatchSize(tools[c]) + j]]

\* C20 at work: a call of three tools, two of them the same, is in its
\* second batch, which is shorter than the first
C20_Witness ==
    \E c \in Callers :
        /\ Len(tools[c]) = 3
        /\ tools[c][1] = tools[c][3]
        /\ tools[c][1] # tools[c][2]
        /\ batchNo[c] = 2
        /\ Len(createConcurrentBatches(tools[c])[1]) = 2
        /\ Len(createConcurrentBatches(tools[c])[2]) = 1
        /\ pc[<<c, 3>>] # "pending"

\* no call of executeTools is in progress
NoCallInProgress == \A c \in Callers : callPc[c] # "running"

\* C21: a handle that is in activeProcesses is removed in the end, a tool
\* that has its ToolResult has no handle, and activeProcesses is empty
\* whenever no call of executeTools is in progress
C21_NoHandleLeaks ==
    /\ \A e \in AllExecs :
           (e \in DOMAIN activeProcesses) ~> (e \notin DOMAIN activeProcesses)
    /\ [](\A e \in AllExecs : pc[e] = "done" => e \notin DOMAIN activeProcesses)
    /\ [](NoCallInProgress => DOMAIN activeProcesses = {})

\* C21 at work: both calls have returned and activeProcesses is empty
\* after handles were registered for a tool that succeeded, a tool that
\* ran its fallback and a tool that timed out
C21_Witness ==
    /\ \A c \in Callers : callPc[c] = "returned"
    /\ DOMAIN activeProcesses = {}
    /\ \E e \in AllExecs : cause[e] = "timeout"
    /\ \E e \in AllExecs : proc[e]["fallback"].state = "exited"
    /\ \E e \in AllExecs : cause[e] = "close" /\ toolResult[e].success

\* C22: a process that was spawned and has not exited belongs to a tool
\* that holds its slot (it awaits runTool) and whose handle in
\* activeProcesses is that process
C22_ProcessesRunInsideTheirSlot ==
    \A e \in AllExecs : \A a \in Attempts :
        proc[e][a].state = "running" =>
            /\ pc[e] = "awaiting"
            /\ e \in DOMAIN activeProcesses
            /\ activeProcesses[e] = a

\* the age past which the handle of e is stale: the timeout of its tool and
\* the buffer
OwnThreshold(e) ==
    TimeoutOf(AttemptConfig(ToolOf(e), activeProcesses[e])) + StaleBuffer

\* C23: a sweep signals and removes every handle that is older than the
\* timeout of its own tool plus the buffer, and leaves every younger handle
\* registered with its process as it was
C23_SweepRemovesStaleHandles ==
    [][sweeps' = sweeps + 1 =>
          \A e \in DOMAIN activeProcesses :
              IF clock - startTime[e] > OwnThreshold(e)
              THEN /\ e \notin DOMAIN activeProcesses'
                   /\ proc'[e][activeProcesses[e]].state = "running" =>
                          proc'[e][activeProcesses[e]].signals # {}
              ELSE /\ e \in DOMAIN activeProcesses'
                   /\ proc'[e] = proc[e]]_vars

\* what the try blocks of the two processResults come to for the request
ProcessorAttempt ==
    TryProcessing(Request.tool, Request.rawOutput, Request.domain, Request.options)

ExecutorAttempt ==
    TryProcessResults(Request.tool, [output |-> Request.rawOutput],
                      [domain |-> Request.domain.value])

\* C24: the result pipeline never raises: for every raw output (empty, no
\* string, malformed, matching nothing) and every output type, each
\* processResults returns a result record whose count is the length of its
\* results, and when its try block throws, the record has no results, count
\* 0 and the message of the error
C24_PipelineNeverRaises ==
    /\ Processed # NoValue =>
           /\ ~HasThrown(Processed)
           /\ Processed.count = Len(Processed.results)
           /\ HasThrown(ProcessorAttempt) =>
                  /\ Processed.count = 0
                  /\ Processed.error = ProcessorAttempt.threw
    /\ Executed # NoValue =>
           /\ ~HasThrown(Executed)
           /\ Executed.count = Len(Executed.results)
           /\ HasThrown(ExecutorAttempt) =>
                  /\ Executed.count = 0
                  /\ Executed.error = ExecutorAttempt.threw

\* the processor has caught the TypeError of includes on a matching line
C24_Witness ==
    /\ Processed # NoValue
    /\ Request.rawOutput = Str(ScenarioBOutput)
    /\ "error" \in DOMAIN Processed
    /\ Processed.count = 0

\* the call of scenario B: domain example.com, the four lines, outputType
\* domains (the default of the processor, the type of subfinder)
ScenarioB ==
    /\ Request.rawOutput = Str(ScenarioBOutput)
    /\ Request.domain = Str(ExampleDomain)
    /\ Request.options = [outputType |-> "domains"]
    /\ Request.tool = "subfinder"

MailExample ==
    <<"m", "a", "i", "l", ".", "e", "x", "a", "m", "p", "l", "e", ".", 
      "c", "o", "m">>

WwwExample ==
    <<"w", "w", "w", ".", "e", "x", "a", "m", "p", "l", "e", ".", "c", "o", "m">>

\* C25: for domain example.com and the raw output of the four lines
\* www.example.com, mail.example.com, #comment, invalid..example.com with
\* outputType domains, the result list is exactly mail.example.com,
\* www.example.com and count is 2: the comment and the entry with the
\* double dot are left out
C25_ScenarioBResult ==
    ScenarioB =>
        /\ Processed # NoValue =>
               /\ Processed.results = <<Str(MailExample), Str(WwwExample)>>
               /\ Processed.count = 2
        /\ Executed # NoValue =>
               /\ Executed.results = <<MailExample, WwwExample>>
               /\ Executed.count = 2

\* the noise tokens the specification names
NamedNoise ==
    { <<"E","r","r","o","r">>, <<"t","i","m","e","o","u","t">>,
      <<"f","a","i","l","e","d">>, <<"n","o","t"," ","f","o","u","n","d">> }

\* a trimmed line that is to contribute nothing: blank, a comment, noise
Skipped(line) ==
    \/ line = <<>>
    \/ StartsWith(line, <<"#">>)
    \/ StartsWith(line, <<"/", "/">>)
    \/ StartsWith(line, <<";">>)
    \/ \E noise \in NamedNoise : Includes(line, noise)

\* the raw output without the lines that are to contribute nothing
WithoutSkipped(output) ==
    LET kept == SelectSeq(TrimmedLines(output), LAMBDA line : ~Skipped(line))
    IN  IF kept = <<>> THEN <<>> ELSE JoinLines(kept)

\* an extracted domain as the specification describes it
WellFormed(d, baseDomain) ==
    /\ Includes(d, baseDomain)
    /\ \A i \in 1..Len(d) : d[i] \in Alnum \cup {".", "-"}
    /\ ~StartsWith(d, <<".">>)
    /\ ~EndsWith(d, <<".">>)

\* a call that extracts domains for a queried domain from a text
ExtractsDomains ==
    /\ Request.rawOutput.type = "string"
    /\ Request.domain.type = "string"

\* what C26 asks of parseDomainsOutput of the processor
ProcessorExtractsWellFormed ==
    Processed # NoValue /\ Options.outputType = "domains" =>
        /\ \A r \in Range(Processed.results) :
               r.type = "string" /\ WellFormed(r.value, Request.domain.value)
        /\ Processed.results =
               ResultProcessor_processResults(Request.tool,
                   Str(WithoutSkipped(Request.rawOutput.value)),
                   Request.domain, Request.options).results

\* what C26 asks of parseDomainsOutput of the executor
ExecutorExtractsWellFormed ==
    Executed # NoValue /\ Request.tool = "subfinder" =>
        /\ \A r \in Range(Executed.results) : WellFormed(r, Request.domain.value)
        /\ Executed.results =
               ToolExecutor_processResults(Request.tool,
                   [output |-> Str(WithoutSkipped(Request.rawOutput.value))],
                   [domain |-> Request.domain.value]).results

\* C26: every string that domain extraction returns for a queried domain
\* contains that domain, consists of letters, digits, dots and hyphens
\* only, and neither starts nor ends with a dot; blank lines, lines that
\* start with #, // or ; and lines that contain Error, timeout, failed or
\* not found contribute no result (the result is that of the output
\* without these lines)
C26_ExtractedDomainsAreWellFormed ==
    ExtractsDomains => ProcessorExtractsWellFormed /\ ExecutorExtractsWellFormed

\* strings in the order the specification gives domains: shorter first,
\* equally long ones in the order of their text
ByLengthThenText(xs) ==
    \A i \in 1..Len(xs) : \A j \in (i + 1)..Len(xs) :
        \/ Len(xs[i]) < Len(xs[j])
        \/ Len(xs[i]) = Len(xs[j]) /\ ~StrLess(xs[j], xs[i])

\* what C27 asks of the processor
ProcessorSortsDomains ==
    Processed # NoValue /\ Options.outputType = "domains" /\ Options.sort =>
        ByLengthThenText([i \in 1..Len(Processed.results) |->
                             Processed.results[i].value])

\* C27: domain results are sorted by length ascending and, among equal
\* lengths, lexicographically, both when the processor returns them with
\* sort enabled and in the result of the executor for a tool of type
\* domains, which executeTools hands out as the ToolResult
C27_DomainsSortedByLengthThenText ==
    /\ ProcessorSortsDomains
    /\ Executed # NoValue /\ Request.tool = "subfinder" =>
           ByLengthThenText(Executed.results)

\* the list the request hands to sortResults
BeforeSort ==
    Prepared(Request.rawOutput, Request.domain, [Options EXCEPT !.sort = FALSE])

\* how often x occurs in xs
Occurrences(x, xs) == Cardinality({i \in 1..Len(xs) : xs[i] = x})

IsPermutation(xs, ys) ==
    /\ Len(xs) = Len(ys)
    /\ \A x \in Range(xs) \cup Range(ys) : Occurrences(x, xs) = Occurrences(x, ys)

\* the numbers of the four octets of an address
Octets(ip) == [k \in 1..4 |-> DigitsValue(Split(ip, ".")[k], 0)]

\* a is not behind b when the octets are compared as numbers, left to right
RECURSIVE NumericallyNotBehind(_, _)
NumericallyNotBehind(a, b) ==
    IF a = <<>> THEN TRUE
    ELSE IF Head(a) # Head(b) THEN Head(a) < Head(b)
    ELSE NumericallyNotBehind(Tail(a), Tail(b))

\* a call that sorts addresses
SortsIPs ==
    /\ Processed # NoValue
    /\ Request.rawOutput.type = "string"
    /\ Options.outputType = "ips"
    /\ Options.sort

\* C28: for a list of valid IPv4 strings, sortResults with type ips returns
\* a permutation of the list in the order of the numbers of the four
\* octets, compared left to right (9.0.0.1 before 10.0.0.1, 1.2.3.4 before
\* 1.10.0.0)
C28_IPsSortedNumerically ==
    SortsIPs =>
        /\ IsPermutation(BeforeSort, Processed.results)
        /\ \A i \in 1..Len(Processed.results) :
               \A j \in (i + 1)..Len(Processed.results) :
                   NumericallyNotBehind(Octets(Processed.results[i].value),
                                        Octets(Processed.results[j].value))

\* addresses were sorted into an order that is not the order of their text,
\* with an address that occurs twice
C28_Witness ==
    /\ SortsIPs
    /\ BeforeSort # Processed.results
    /\ Len(Processed.results) = MaxIPs
    /\ \E i \in 1..MaxIPs : \E j \in (i + 1)..MaxIPs :
           StrLess(Processed.results[j].value, Processed.results[i].value)
    /\ \E i \in 1..MaxIPs : \E j \in (i + 1)..MaxIPs :
           Processed.results[j] = Processed.results[i]

\* the list the request hands to deduplicateResults
BeforeDeduplication ==
    Prepared(Request.rawOutput, Request.domain,
             [Options EXCEPT !.deduplicate = FALSE, !.sort = FALSE])

NoRepeats(xs) == \A i \in 1..Len(xs) : \A j \in 1..Len(xs) : xs[i] = xs[j] => i = j

\* a call of the processor that removes duplicates and returns all it has
Deduplicates ==
    /\ Processed # NoValue
    /\ Request.rawOutput.type = "string"
    /\ "error" \notin DOMAIN Processed
    /\ Options.deduplicate
    /\ "maxResults" \notin DOMAIN Request.options

\* C29: deduplication is idempotent and keeps the set of elements:
\* deduplicateResults(deduplicateResults(xs)) is deduplicateResults(xs), the
\* output has no element twice and has the elements of xs; so what
\* processResults returns with deduplicate on, and what the executor returns
\* for a domains tool, has no element twice
C29_DeduplicationIsIdempotent ==
    /\ Deduplicates =>
           LET xs == BeforeDeduplication
               ys == deduplicateResults(xs)
           IN  /\ deduplicateResults(ys) = ys
               /\ NoRepeats(ys)
               /\ Range(ys) = Range(xs)
               /\ IsPermutation(ys, Processed.results)
    /\ Executed # NoValue /\ Request.tool = "subfinder" =>
           NoRepeats(Executed.results)

\* the processor was handed a list with an element twice
C29_Witness ==
    /\ Deduplicates
    /\ ~NoRepeats(BeforeDeduplication)
    /\ Len(Processed.results) > 1

\* the validated, deduplicated and sorted list of the request
BeforeTruncation == Prepared(Request.rawOutput, Request.domain, Options)

\* C30: for every maxResults m >= 0 in the options, the list processResults
\* returns has at most m elements and is the first m elements of the
\* validated, deduplicated and sorted list; without the option the limit is
\* 10000
C30_ResultsTruncatedToMaxResults ==
    /\ "maxResults" \notin DOMAIN Request.options =>
           Options.maxResults = DefaultMaxResults
    /\ Processed # NoValue /\ Request.rawOutput.type = "string"
         /\ "error" \notin DOMAIN Processed =>
           /\ Len(Processed.results) <= Options.maxResults
           /\ Processed.results =
                  SubSeq(BeforeTruncation, 1,
                         Min(Options.maxResults, Len(BeforeTruncation)))

\* the arguments of the template were substituted
Substituted == substitution.processedArgs # <<>>

\* the pieces of the substituted arguments, each with the piece of the
\* template it came from
PiecePairs ==
    UNION {{<<substitution.args[i][j], substitution.processedArgs[i][j]>> :
               j \in 1..Len(substitution.args[i])} :
           i \in 1..Len(substitution.args)}

FirstInLine(text, p) ==
    /\ text[p] \notin WhiteSpace
    /\ \A q \in 1..(p - 1) :
           (\A r \in q..(p - 1) : text[r] # "\n") => text[q] \in WhiteSpace

\* position p of a text holds the last character of its line that is no
\* white space
LastInLine(text, p) ==
    /\ text[p] \notin WhiteSpace
    /\ \A q \in (p + 1)..Len(text) :
           (\A r \in (p + 1)..q : text[r] # "\n") => text[q] \in WhiteSpace

\* the k-th smallest number of a set
Nth(S, k) == CHOOSE p \in S : Cardinality({q \in S : q < p}) = k - 1

\* the lines of a text that are not blank, each from its first to its last
\* character that is no white space, in the order of the text
NonBlankLines(text) ==
    LET firsts == {p \in 1..Len(text) : FirstInLine(text, p)}
        lasts == {p \in 1..Len(text) : LastInLine(text, p)}
    IN  [k \in 1..Cardinality(firsts) |->
            SubSeq(text, Nth(firsts, k), Nth(lasts, k))]

\* the tools of the registry whose output is text
TextTools == {t \in RegisteredTools : toolConfigs[t].outputType = "text"}

\* the executor has processed the text of a text tool
ExecutorProcessedText ==
    /\ Executed # NoValue
    /\ Request.tool \in TextTools
    /\ Request.rawOutput.type = "string"

\* the processor has processed a text as text, with every later step
\* switched off and no limit reached
ProcessorParsedText ==
    /\ Processed # NoValue
    /\ Request.rawOutput.type = "string"
    /\ Options.outputType = "text"
    /\ ~Options.validate /\ ~Options.deduplicate /\ ~Options.sort
    /\ "maxResults" \notin DOMAIN Request.options

\* the strings of a list of string values
Values(rs) == [i \in 1..Len(rs) |-> rs[i].value]

\* C32: for a text tool the result is the list of the lines of the raw
\* output that are not blank, trimmed, in their order and with their content
\* as it is, and count is its length; the answer of dig of scenario A yields
\* that one line and count 1
C32_TextResultIsItsLines ==
    /\ ExecutorProcessedText =>
           /\ Executed.results = NonBlankLines(Request.rawOutput.value)
           /\ Executed.count = Len(Executed.results)
           /\ Request.rawOutput.value = ScenarioAOutput =>
                  Executed.results = <<ScenarioAOutput>> /\ Executed.count = 1
    /\ ProcessorParsedText =>
           /\ Values(Processed.results) = NonBlankLines(Request.rawOutput.value)
           /\ Processed.count = Len(Processed.results)
    /\ Processed # NoValue /\ Options.outputType = "text"
         /\ Request.rawOutput = Str(ScenarioAOutput) =>
           Processed.results = <<Str(ScenarioAOutput)>> /\ Processed.count = 1

\* both implementations have processed a text with a blank line and with
\* white space at the ends of lines
C32_Witness ==
    /\ ExecutorProcessedText
    /\ ProcessorParsedText
    /\ Len(Executed.results) > 1
    /\ Len(Executed.results) < Len(Split(Request.rawOutput.value, "\n"))
    /\ \E line \in Range(Split(Request.rawOutput.value, "\n")) :
           line # <<>> /\ Trim(line) # line /\ Trim(line) # <<>>

\* the raw outputs of the requests that are no JSON
NoJsonOutputs ==
    {ScenarioAOutput, ScenarioBOutput, NoisyOutput, TextOutput, UrlsOutput,
     EmailsOutput}

\* the processor has processed as json a text that is no JSON
ProcessedNoJsonAsJson ==
    /\ Processed # NoValue
    /\ Options.outputType = "json"
    /\ Request.rawOutput.type = "string"
    /\ Request.rawOutput.value \in NoJsonOutputs

\* the options of the request with another output type
OptionsFor(outputType) ==
    [key \in DOMAIN Request.options \cup {"outputType"} |->
        IF key = "outputType" THEN outputType ELSE Request.options[key]]

\* what processResults returns for the request as text
ProcessedAsText ==
    ResultProcessor_processResults(Request.tool, Request.rawOutput,
                                   Request.domain, OptionsFor("text"))

\* C33: processResults with outputType json, on a raw output that is no
\* JSON, returns the results and the count it returns with outputType text
\* under the same options, and no error; with every later step switched off
\* these are the non-blank trimmed lines
C33_InvalidJsonIsHandledAsText ==
    ProcessedNoJsonAsJson =>
        /\ "error" \notin DOMAIN Processed
        /\ Processed.processed
        /\ Processed.results = ProcessedAsText.results
        /\ Processed.count = ProcessedAsText.count
        /\ ~Options.validate /\ ~Options.deduplicate /\ ~Options.sort =>
               Values(Processed.results) = NonBlankLines(Request.rawOutput.value)

\* a text of several lines that is no JSON was processed as json
C33_Witness ==
    /\ ProcessedNoJsonAsJson
    /\ Len(Processed.results) > 1

\* the invocations of executeSingleTool that have passed
\* waitForExecutionSlot and not yet run their finally block
SlotHolders == {e \in AllExecs : pc[e] \in {"awaiting", "processing"}}

\* the counter is the number of invocations that hold a slot
CountsSlotHolders ==
    /\ concurrentExecutions = Cardinality(SlotHolders)
    /\ concurrentExecutions >= 0
    /\ NoCallInProgress => concurrentExecutions = 0

\* C34: concurrentExecutions is the number of invocations of
\* executeSingleTool that have acquired a slot and not yet run their finally
\* block, on every path (success, unknown tool, invalid input, spawn
\* failure, timeout); it is never negative, a sweep of stale handles (with
\* its killExecution) and killAllProcesses leave it as it is, and it is 0
\* whenever no call of executeTools is in progress
C34_CounterIsNumberOfSlotHolders ==
    [][/\ CountsSlotHolders
       /\ CountsSlotHolders'
       /\ sweeps' # sweeps \/ killAllCalls' # killAllCalls =>
              /\ concurrentExecutions' = concurrentExecutions
              /\ SlotHolders' = SlotHolders]_vars

\* a sweep has removed the handle of an invocation that still holds its
\* slot, while other invocations have failed for an unknown tool or an
\* invalid input after waiting for a slot, and one has succeeded
C34_Witness ==
    /\ sweeps > 0
    /\ \E e \in SlotHolders : e \notin DOMAIN activeProcesses
    /\ \E e \in waited : cause[e] \in {"unknown", "invalid"}
    /\ \E e \in AllExecs : pc[e] = "done" /\ toolResult[e].success

\* the invocations whose primary command did not start and whose fallback
\* process was spawned
RanFallback ==
    {e \in AllExecs : fallbackAttempted[e] /\ proc[e]["fallback"].state # "none"}

\* C35: when the primary command fails to start and a fallback attempt is
\* made, runTool is settled by the fallback attempt and not by the 'close'
\* of the primary that failed, and the fallback process no longer runs once
\* the ToolResult of its tool is there and its slot and handle are released
C35_FallbackAttemptSettlesRunTool ==
    \A e \in RanFallback :
        /\ pc[e] \in {"processing", "done"} /\ cause[e] = "close" =>
               /\ proc[e]["fallback"].state = "exited"
               /\ runResult[e].code # ExitCodeENOENT
        /\ pc[e] = "done" => proc[e]["fallback"].state # "running"

\* the domain is written in letters, digits, hyphens and dots only, with
\* no label that is empty or begins or ends with a hyphen
DomainSyntax(d) ==
    /\ d # <<>>
    /\ \A i \in 1..Len(d) : d[i] \in Alnum \cup {"-", "."}
    /\ d[1] \in Alnum
    /\ d[Len(d)] \in Alnum
    /\ \A i \in 2..(Len(d) - 1) :
           d[i] = "." => d[i - 1] \in Alnum /\ d[i + 1] \in Alnum

\* the domain carries a shell metacharacter, '..' or a NUL character
Dangerous(d) ==
    \/ \E i \in 1..Len(d) : d[i] \in ShellChars \cup {Nul}
    \/ \E i \in 1..(Len(d) - 1) : d[i] = "." /\ d[i + 1] = "."

\* the invocations whose domain validateInputs is to reject
WithRejectedDomain ==
    {e \in AllExecs : ~DomainSyntax(domain[e[1]]) \/ Dangerous(domain[e[1]])}

\* spawn was called, or a process exists, for the invocation
Spawned(e) ==
    \/ spawnCalls[e] > 0
    \/ \E a \in Attempts : proc[e][a].state # "none"

\* C36: a process is spawned only for an invocation whose tool name and
\* domain validateInputs has accepted: for a domain that fails the syntax
\* check or carries a shell metacharacter, '..' or a NUL character, neither
\* the primary nor the fallback command is ever spawned, no handle is
\* registered, and the ToolResult of the invocation is a failure
C36_SpawnOnlyAfterValidation ==
    /\ \A e \in WithRejectedDomain :
           /\ ~Spawned(e)
           /\ e \notin DOMAIN activeProcesses
           /\ pc[e] \in {"pending", "waiting", "done"}
           /\ pc[e] = "done" =>
                  /\ ~toolResult[e].success
                  /\ toolResult[e].results = <<>>
    /\ \A e \in AllExecs :
           Spawned(e) =>
               /\ DomainSyntax(domain[e[1]])
               /\ ~Dangerous(domain[e[1]])
               /\ HasConfiguration(ToolOf(e))

\* an invocation with a domain that carries a shell metacharacter has
\* failed on validateInputs after waiting for a slot, while the processes of
\* the other call were spawned
C36_Witness ==
    /\ \E e \in WithRejectedDomain \cap waited :
           /\ pc[e] = "done"
           /\ cause[e] = "invalid"
           /\ \E i \in 1..Len(domain[e[1]]) : domain[e[1]][i] \in ShellChars
    /\ \E e \in AllExecs : spawnCalls[e] > 1

\* C37: the outcome of a tool is settled once, by the first of the timeout,
\* the 'close' of the process and the error of spawn: what runTool came to,
\* its cause and the ToolResult never change afterwards, so a tool reported
\* as timed out stays a failure when its process closes later; and a
\* process that has closed has no timeout timer, is not marked as timed out
\* and gets no signal afterwards
C37_OutcomeIsSettledOnce ==
    [][\A e \in AllExecs :
          /\ toolResult[e] # NoValue => toolResult'[e] = toolResult[e]
          /\ runResult[e] # NoValue => runResult'[e] = runResult[e]
          /\ cause[e] # "none" => cause'[e] = cause[e]
          /\ cause'[e] = "timeout" =>
                 /\ pc'[e] = "done"
                 /\ ~toolResult'[e].success
          /\ \A a \in Attempts :
                 proc[e][a].state = "exited" =>
                     /\ ~proc[e][a].timer
                     /\ proc'[e][a].state = "exited"
                     /\ proc'[e][a].timer = proc[e][a].timer
                     /\ proc'[e][a].timedOut = proc[e][a].timedOut
                     /\ proc'[e][a].signals = proc[e][a].signals]_vars

\* a process has closed after the timeout of its tool was reported, and
\* the process of another tool has closed before its timeout
C37_Witness ==
    /\ \E e \in AllExecs : \E a \in Attempts :
           /\ cause[e] = "timeout"
           /\ proc[e][a].timedOut
           /\ proc[e][a].state = "exited"
           /\ ~toolResult[e].success
    /\ \E e \in AllExecs : \E a \in Attempts :
           /\ cause[e] = "close"
           /\ proc[e][a].state = "exited"
           /\ ~proc[e][a].timedOut
           /\ pc[e] = "done"

\* C38: activeProcesses never holds more handles than concurrentExecutions
\* counts: every handle belongs to an invocation that holds a slot, and it
\* is gone when the slot is released
C38_HandlesWithinSlots ==
    /\ Cardinality(DOMAIN activeProcesses) <= concurrentExecutions
    /\ DOMAIN activeProcesses \subseteq SlotHolders
    /\ \A e \in AllExecs : pc[e] = "done" => e \notin DOMAIN activeProcesses

\* after killAllProcesses cleared the handles of two running tools, one of
\* them was released and another tool took the slot and registered a handle
C38_Witness ==
    /\ killAllCalls > 0
    /\ Cardinality(DOMAIN activeProcesses) = 1
    /\ concurrentExecutions = MaxConcurrent
    /\ \E e \in AllExecs : pc[e] = "done"
    /\ \E e \in SlotHolders : e \notin DOMAIN activeProcesses
\* the list the parser of the output type extracted from the raw output
Extracted == Parsed(Request.rawOutput, Request.domain, Options.outputType)

\* a call of the processor that returned the list of a text
ReturnedList ==
    /\ Processed # NoValue
    /\ Request.rawOutput.type = "string"
    /\ "error" \notin DOMAIN Processed

\* xs has elements of ys only, in the order they have in ys
RECURSIVE IsSubsequence(_, _)
IsSubsequence(xs, ys) ==
    IF xs = <<>> THEN TRUE
    ELSE IF ys = <<>> THEN FALSE
    ELSE IF Head(xs) = Head(ys) THEN IsSubsequence(Tail(xs), Tail(ys))
    ELSE IsSubsequence(xs, Tail(ys))

\* with validate, deduplicate and sort off the result is the extracted list
\* in its order, duplicates kept, cut at maxResults
AllStepsOffReturnsExtracted ==
    ReturnedList /\ ~Options.validate /\ ~Options.deduplicate /\ ~Options.sort =>
        Processed.results =
            SubSeq(Extracted, 1, Min(Options.maxResults, Len(Extracted)))

\* what each step does to a list that is not cut, whatever the other two
\* switches are: validate alone decides which elements stay, deduplicate
\* alone how often one stays, sort alone the order
StepsAreIndependent ==
    ReturnedList /\ "maxResults" \notin DOMAIN Request.options =>
        /\ Range(Processed.results) =
               {x \in Range(Extracted) :
                   Options.validate => Valid(x, Options.outputType, Request.domain)}
        /\ IF Options.deduplicate
           THEN NoRepeats(Processed.results)
           ELSE \A x \in Range(Processed.results) :
                    Occurrences(x, Processed.results) = Occurrences(x, Extracted)
        /\ IF Options.sort
           THEN sortResults(Processed.results, Options.outputType)
                    = Processed.results
           ELSE IsSubsequence(Processed.results, Extracted)

\* C39: each step of the processor is switched on its own: with validate,
\* deduplicate and sort all off, processResults returns the list of the
\* extractor in extraction order, duplicates kept, cut to its first
\* maxResults elements; and a step does the same whether or not the other
\* steps are on
C39_StepsToggleIndependently ==
    AllStepsOffReturnsExtracted /\ StepsAreIndependent

\* the calls that returned an ExecutionResult with metadata
CallsWithMetadata ==
    {c \in Callers : callPc[c] = "returned" /\ "metadata" \in DOMAIN returned[c]}

\* the entries of the results lists of the ToolResults rs, each with the
\* place of its ToolResult and its place in the list
EntriesOf(rs) ==
    UNION {{<<i, j>> : j \in 1..(IF "results" \in DOMAIN rs[i]
                                 THEN Len(rs[i].results) ELSE 0)} :
           i \in 1..Len(rs)}

\* C40: metadata.totalResults of a returned ExecutionResult is the sum of
\* the lengths of the results lists of its ToolResults, and a ToolResult
\* that failed or has no results field adds nothing to it
C40_TotalResultsIsSumOfLengths ==
    \A c \in CallsWithMetadata :
        /\ returned[c].metadata.totalResults
               = Cardinality(EntriesOf(returned[c].results))
        /\ \A i \in 1..Len(returned[c].results) :
               ~returned[c].results[i].success =>
                   \A entry \in EntriesOf(returned[c].results) : entry[1] # i

\* a call returned a ToolResult with several entries next to a failed one
C40_Witness ==
    \E c \in CallsWithMetadata :
        /\ returned[c].metadata.totalResults > 1
        /\ Len(returned[c].results) > 1
        /\ \E i \in 1..Len(returned[c].results) : ~returned[c].results[i].success

====
